---- MODULE Spec2Model ----
(***************************************************************************)
(* Entity grounding and threat correlation of Cyber-Ontology-INtelligence. *)
(*                                                                         *)
(* The graph store is a snapshot: a fixed catalogue of nodes (labels and   *)
(* properties) and a set of relationships.  run_correlation_analysis and   *)
(* _ground_entity are translated from src/src/services/correlation.py and  *)
(* src/src/services/intelligence_processor.py; the Cypher they send is     *)
(* modelled by what the store evaluates for it.                            *)
(*                                                                         *)
(* Strings are TLA+ strings (Len, SubSeq and \o act on them as on          *)
(* sequences of characters).  Scores are exact rationals kept as integers: *)
(* a combined score is a pair <<num, den>>, the rounded score is in        *)
(* thousandths and the percent in tenths of a percent.                     *)
(***************************************************************************)
EXTENDS Integers, Sequences, FiniteSets, TLC

(***************************************************************************)
(* Bounds of the model.                                                    *)
(***************************************************************************)
MaxArtifacts == 2
MaxEntities == 2

(***************************************************************************)
(* Python / Cypher string primitives.                                      *)
(***************************************************************************)
Min(a, b) == IF a <= b THEN a ELSE b
Max(a, b) == IF a >= b THEN a ELSE b

UpperChars == "ABCDEFGHIJKLMNOPQRSTUVWXYZ"
LowerChars == "abcdefghijklmnopqrstuvwxyz"

CharAt(s, i) == SubSeq(s, i, i)

LowerTable == [c \in { CharAt(UpperChars, i) : i \in 1..26 } |->
                  CharAt(LowerChars, CHOOSE i \in 1..26 : CharAt(UpperChars, i) = c)]

\* str.lower() / toLower() of one character
LowerChar(c) == IF c \in DOMAIN LowerTable THEN LowerTable[c] ELSE c

RECURSIVE ToLower(_)
ToLower(s) ==
    IF s = "" THEN ""
    ELSE LowerChar(CharAt(s, 1)) \o ToLower(SubSeq(s, 2, Len(s)))

\* needle in hay (Python), hay CONTAINS needle (Cypher)
Contains(hay, needle) ==
    \E i \in 1..(Len(hay) - Len(needle) + 1) :
        SubSeq(hay, i, i + Len(needle) - 1) = needle

\* printable ASCII characters (all but the double quote, the backslash and the
\* backquote) in code point order; Rank orders characters as ord() does
Ascii == " !#$%&'()*+,-./0123456789:;<=>?@ABCDEFGHIJKLMNOPQRSTUVWXYZ[]^_abcdefghijklmnopqrstuvwxyz{|}~"
Rank(c) == CHOOSE i \in 1..Len(Ascii) : CharAt(Ascii, i) = c

RECURSIVE StrLess(_, _)
\* a < b on Python str
StrLess(a, b) ==
    IF Len(b) = 0 THEN FALSE
    ELSE IF Len(a) = 0 THEN TRUE
    ELSE IF CharAt(a, 1) = CharAt(b, 1)
         THEN StrLess(SubSeq(a, 2, Len(a)), SubSeq(b, 2, Len(b)))
    ELSE Rank(CharAt(a, 1)) < Rank(CharAt(b, 1))

RECURSIVE Sorted(_)
\* sorted(list(S)) of a set of str
Sorted(S) ==
    IF S = {} THEN <<>>
    ELSE LET least == CHOOSE x \in S : \A y \in S \ {x} : StrLess(x, y)
         IN  <<least>> \o Sorted(S \ {least})

RECURSIVE Join(_, _)
\* sep.join(parts)
Join(parts, sep) ==
    IF Len(parts) = 0 THEN ""
    ELSE IF Len(parts) = 1 THEN parts[1]
    ELSE parts[1] \o sep \o Join(Tail(parts), sep)

\* s.find(sep) + 1: the position of the first occurrence of sep in s, 0 if none
Find(s, sep) ==
    LET at == { i \in 1..(Len(s) - Len(sep) + 1) : SubSeq(s, i, i + Len(sep) - 1) = sep }
    IN  IF at = {} THEN 0 ELSE CHOOSE i \in at : \A j \in at : i <= j

RECURSIVE Split(_, _)
\* s.split(sep)
Split(s, sep) ==
    LET i == Find(s, sep)
    IN  IF i = 0 THEN <<s>>
        ELSE <<SubSeq(s, 1, i - 1)>> \o Split(SubSeq(s, i + Len(sep), Len(s)), sep)

\* Python None / Cypher null
None == "<None>"
\* str(x)
Str(x) == IF x = None THEN "None" ELSE x
\* x or ''
OrEmpty(x) == IF x = None THEN "" ELSE x
\* Cypher string concatenation: null if either side is null
CypherConcat(a, b) == IF a = None \/ b = None THEN None ELSE a \o b

\* the first element of a sequence of rows, at most n of them (Cypher LIMIT n)
Limit(rows, n) == SubSeq(rows, 1, Min(Len(rows), n))

SeqToSet(s) == { s[i] : i \in 1..Len(s) }

RECURSIVE Flatten(_)
\* the concatenation of a sequence of sequences
Flatten(ss) ==
    IF Len(ss) = 0 THEN <<>>
    ELSE IF Len(ss) = 1 THEN ss[1]
    ELSE LET half == Len(ss) \div 2
         IN  Flatten(SubSeq(ss, 1, half)) \o Flatten(SubSeq(ss, half + 1, Len(ss)))

(***************************************************************************)
(* The graph snapshot.  The node catalogue is fixed; a snapshot is the set *)
(* of relationships present and the state of the fulltext index.           *)
(***************************************************************************)
VARIABLES
    edges,              \* relationships of the snapshot: indices into EdgeCatalogue
    fulltext,           \* 0: no fulltext index; otherwise the score of one index hit
    pc,                 \* "idle" | "done" | "hinted": position of the caller
    artifacts,          \* run_correlation_analysis: artifacts (values of the dicts)
    depth,              \* run_correlation_analysis: depth
    looseness,          \* run_correlation_analysis: looseness
    include_incidents,  \* run_correlation_analysis: include_incidents
    results,            \* run_correlation_analysis: returned list
    message,            \* run_correlation_analysis: returned explanation (its kind)
    raw_rows,           \* run_correlation_analysis: raw_rows at return
    aggregated,         \* run_correlation_analysis: aggregated_tgs at return
    hints,              \* get_smart_hints: the list last returned
    query_fault,        \* run_correlation_analysis: the sub-query the store failed on
    narrative           \* run_correlation_analysis: what the narrative generator did

corrVars == <<edges, fulltext, pc, artifacts, depth, looseness, include_incidents,
              results, message, raw_rows, aggregated, hints, query_fault,
              narrative>>

\* the post-processing of one step of a report (process_report, step 3)
VARIABLES
    store,              \* the named nodes of the snapshot: indices into StoreNames
    step_entities,      \* step.related_entities as extracted, before post-processing
    remaining,          \* the entities of the step the outer loop has not reached
    entity_no,          \* the position in step_entities of the outer loop's entity
    split_entities,     \* the sub-entities of that entity the inner loop has not reached
    valid_entities,     \* valid_entities: the grounded entities so far
    grounding_log,      \* per grounded entity: where it came from, what grounding saw
    gpc                 \* "loop" | "done": position in process_report's step 3

groundVars == <<store, step_entities, remaining, entity_no, split_entities,
                valid_entities, grounding_log, gpc>>

\* the ranking at the end of run_correlation_analysis, on lists of any length
VARIABLES
    formatted_results,  \* formatted_results before line 369
    ranked,             \* formatted_results after it
    rpc                 \* "rank" | "done"

rankVars == <<formatted_results, ranked, rpc>>

\* the expansion sub-query on stores larger than the model's graph
VARIABLES
    seed_paths,         \* per seed, the paths expandConfig yields without a level bound
    rows_at,            \* per depth, the rows of the expansion sub-query
    xpc                 \* "expand" | "done"

expandVars == <<seed_paths, rows_at, xpc>>

\* the run_cypher tool of the agent (src/src/tools/neo4j.py)
VARIABLES
    kg,                 \* the store the tool reaches: nodes, their names and labels, the index
    cypher_query,       \* the query string of the last call ("" before the first)
    tool_answer         \* what the last call returned (its kind)

cypherVars == <<kg, cypher_query, tool_answer>>

\* the generated incidents and their import (scripts/setup/generate_incidents.py,
\* scripts/etl/process_incidents.py)
VARIABLES
    incidents_json,     \* data/generated/incidents.json: the ids of its incidents, in order
    imported_json,      \* data/processed/incidents_imported.json: the ids, in order
    incident_nodes      \* the ids of the Incident nodes of the graph store

incidentVars == <<incidents_json, imported_json, incident_nodes>>

vars == <<corrVars, groundVars, rankVars, expandVars, cypherVars, incidentVars>>

\* what the actions of one part leave alone: the state of the other parts
outsideCorrelation == <<groundVars, rankVars, expandVars, cypherVars, incidentVars>>
outsideGrounding == <<corrVars, rankVars, expandVars, cypherVars, incidentVars>>
outsideRanking == <<corrVars, groundVars, expandVars, cypherVars, incidentVars>>
outsideExpansion == <<corrVars, groundVars, rankVars, cypherVars, incidentVars>>
outsideCypher == <<corrVars, groundVars, rankVars, expandVars, incidentVars>>
outsideIncidents == <<corrVars, groundVars, rankVars, expandVars, cypherVars>>

\* Nodes as the loaders create them (scripts/setup/init_db.py,
\* scripts/etl/process_incidents.py): MITRE nodes carry [label, BaseNode] and
\* name/description, Indicators a url, Incidents a title, AttackSteps no naming field.
Node ==
    << [labels |-> <<"Indicator">>,               props |-> [url |-> "1.2.3.4"]],
       [labels |-> <<"Malware", "BaseNode">>,     props |-> [name |-> "Emotet"]],
       [labels |-> <<"ThreatGroup", "BaseNode">>, props |-> [name |-> "TA1"]],
       [labels |-> <<"BaseNode", "ThreatGroup">>, props |-> [name |-> "TA2", description |-> "emotet"]],
       [labels |-> <<"Incident">>,                props |-> [title |-> "Incident9"]],
       [labels |-> <<"AttackStep">>,              props |-> [phase |-> "c2", description |-> "via 1.2.3.4"]] >>

NodeIds == 1..Len(Node)

\* MATCH (n) scans the nodes; the store's scan order
ScanOrder == [i \in NodeIds |-> i]

EdgeCatalogue ==
    << [src |-> 1, type |-> "INDICATES",     dst |-> 2],
       [src |-> 3, type |-> "USES",          dst |-> 2],
       [src |-> 4, type |-> "USES",          dst |-> 2],
       [src |-> 5, type |-> "ATTRIBUTED_TO", dst |-> 3],
       [src |-> 5, type |-> "STARTS_WITH",   dst |-> 6],
       [src |-> 6, type |-> "HAS_INDICATOR", dst |-> 1] >>

EdgeIds == 1..Len(EdgeCatalogue)

\* the indicator feed (Indicator -> Malware) is loaded; each group's USES is present
\* or not; the incident chain (Incident -> AttackStep -> Indicator, Incident ->
\* ThreatGroup) is loaded as a whole or not at all
FeedEdges == {1}
UsesEdges == {2, 3}
IncidentEdges == {4, 5, 6}
Snapshots == { FeedEdges \cup s \cup t : s \in SUBSET UsesEdges, t \in {{}, IncidentEdges} }

HasLabel(n, l) == \E i \in 1..Len(Node[n].labels) : Node[n].labels[i] = l
Prop(n, f) == IF f \in DOMAIN Node[n].props THEN Node[n].props[f] ELSE None

RECURSIVE CoalesceProps(_, _)
\* coalesce(n.f1, n.f2, ...)
CoalesceProps(n, fields) ==
    IF fields = <<>> THEN None
    ELSE IF Prop(n, Head(fields)) # None THEN Prop(n, Head(fields))
    ELSE CoalesceProps(n, Tail(fields))

PROP_FIELDS == <<"name", "url", "cve_id", "value", "indicator", "title", "description",
                 "hash", "ip", "domain">>

RECURSIVE JoinCoalesced(_, _)
JoinCoalesced(n, fields) ==
    IF fields = <<>> THEN ""
    ELSE OrEmpty(Prop(n, Head(fields)))
         \o (IF Len(fields) > 1 THEN " " ELSE "")
         \o JoinCoalesced(n, Tail(fields))

\* the value of the Cypher expression _coalesce_fields builds, lower-cased:
\* the ten properties (missing ones as '') joined by single spaces
CoalescedText == [n \in NodeIds |-> ToLower(JoinCoalesced(n, PROP_FIELDS))]

\* safe_val = str(val).replace("'", "\\'"), read back by the store as the
\* single-quoted literal '<safe_val>': \' is a quote, \\ a backslash, a bare quote
\* ends the literal early (the query is malformed: None)
RECURSIVE EscapeQuotes(_)
EscapeQuotes(s) ==
    IF s = "" THEN ""
    ELSE (IF CharAt(s, 1) = "'" THEN "\\'" ELSE CharAt(s, 1)) \o EscapeQuotes(SubSeq(s, 2, Len(s)))

RECURSIVE ReadLiteral(_)
ReadLiteral(s) ==
    IF s = "" THEN ""
    ELSE IF CharAt(s, 1) = "'" THEN None
    ELSE IF CharAt(s, 1) = "\\"
         THEN IF Len(s) < 2 THEN None
              ELSE CypherConcat(CharAt(s, 2), ReadLiteral(SubSeq(s, 3, Len(s))))
    ELSE CypherConcat(CharAt(s, 1), ReadLiteral(SubSeq(s, 2, Len(s))))

(***************************************************************************)
(* The store's answers to the sub-queries of run_correlation_analysis.     *)
(***************************************************************************)
MapSeq(s, F(_)) == [i \in 1..Len(s) |-> F(s[i])] \o <<>>

\* the nodes satisfying P, in the store's scan order
Scan(P(_)) == SelectSeq(ScanOrder, P)

Row(label, type, d, matches, raw) ==
    [label |-> label, type |-> type, dist |-> d, matches |-> matches, raw_score |-> raw]

\* coalesce(candidate.name, candidate.cve_id, candidate.url, candidate.value, candidate.title)
LabelWithTitle(n) == CoalesceProps(n, <<"name", "cve_id", "url", "value", "title">>)
\* coalesce(candidate.name, candidate.cve_id, candidate.url, candidate.value)
LabelNoTitle(n) == CoalesceProps(n, <<"name", "cve_id", "url", "value">>)
\* coalesce(n.name, n.title, n.cve_id, n.url, n.value)
LabelOfPathNode(n) == CoalesceProps(n, <<"name", "title", "cve_id", "url", "value">>)

\* labels(candidate)[0]
FirstLabel(n) == Node[n].labels[1]
\* CASE WHEN 'ThreatGroup' IN labels(node) THEN 'ThreatGroup' ELSE head(labels(node)) END
ThreatGroupOrHead(n) == IF HasLabel(n, "ThreatGroup") THEN "ThreatGroup" ELSE FirstLabel(n)

ExactLimit == 100
ContainsLimit == 100
FulltextLimit == 200
FallbackLimit == 500
ExpandPathLimit == 200
ExpandLimit == 100
AggressiveLimit == 1000

\* exact match (Priority 1): the coalesced text equals the value
ExactMatchRows(lit) ==
    IF lit = None THEN <<>>
    ELSE Limit(MapSeq(LET v == ToLower(lit) IN Scan(LAMBDA n : CoalescedText[n] = v),
                      LAMBDA n : Row(LabelWithTitle(n), FirstLabel(n), 0,
                                     <<CypherConcat("ExactMatch:", LabelWithTitle(n))>>, 0)),
               ExactLimit)

\* contains match (Priority 2)
ContainsMatches(lit) == LET v == ToLower(lit) IN Scan(LAMBDA n : Contains(CoalescedText[n], v))

PartialMatchRows(lit) ==
    IF lit = None THEN <<>>
    ELSE Limit(MapSeq(ContainsMatches(lit),
                      LAMBDA n : Row(LabelWithTitle(n), FirstLabel(n), 1,
                                     <<CypherConcat("PartialMatch:", LabelWithTitle(n))>>, 0)),
               ContainsLimit)

ContainsFallbackRows(lit) ==
    IF lit = None THEN <<>>
    ELSE Limit(MapSeq(ContainsMatches(lit),
                      LAMBDA n : Row(LabelNoTitle(n), FirstLabel(n), 5,
                                     <<CypherConcat("ContainsFallback:", LabelNoTitle(n))>>, 0)),
               FallbackLimit)

AggressiveContainsRows(lit) ==
    IF lit = None THEN <<>>
    ELSE Limit(MapSeq(ContainsMatches(lit),
                      LAMBDA n : Row(LabelNoTitle(n), ThreatGroupOrHead(n), 6,
                                     <<CypherConcat("AggressiveContains:", LabelNoTitle(n))>>, 0)),
               AggressiveLimit)

\* The fulltext index of init_db.py covers name and description of BaseNode nodes.
\* The words of a text, lower-cased (the index's analyzer splits at spaces).
RECURSIVE Words(_, _)
Words(s, cur) ==
    IF s = "" THEN (IF cur = "" THEN {} ELSE {cur})
    ELSE IF CharAt(s, 1) = " "
         THEN (IF cur = "" THEN {} ELSE {cur}) \cup Words(SubSeq(s, 2, Len(s)), "")
    ELSE Words(SubSeq(s, 2, Len(s)), cur \o LowerChar(CharAt(s, 1)))

IndexedWords == [n \in NodeIds |->
    IF HasLabel(n, "BaseNode")
    THEN Words(OrEmpty(Prop(n, "name")), "") \cup Words(OrEmpty(Prop(n, "description")), "")
    ELSE {}]

\* db.index.fulltext.queryNodes(idx, '<val>~'): the indexed nodes one of whose words
\* is the value, each with the index's score
FulltextRows(lit, ft) ==
    IF lit = None THEN <<>>
    ELSE Limit(MapSeq(LET v == ToLower(lit) IN Scan(LAMBDA n : v \in IndexedWords[n]),
                      LAMBDA n : Row(LabelNoTitle(n), ThreatGroupOrHead(n), 1,
                                     <<LabelNoTitle(n)>>, ft)),
               FulltextLimit)

(***************************************************************************)
(* Seed-driven expansion: apoc.path.expandConfig from every node whose     *)
(* coalesced text contains the value.                                      *)
(***************************************************************************)
rel_filter == {"USES", "INDICATES", "RELATED_TO", "CONNECTED", "RELATED", "ASSOCIATED_WITH",
               "USES_MALWARE", "EXPLOITS", "HAS_INDICATOR", "ATTRIBUTED_TO", "TARGETS",
               "STARTS_WITH", "NEXT"}

\* labelFilter: the allowlist, without Incident and AttackStep when incidents are excluded
label_allow(inc) ==
    {"ThreatGroup", "Campaign", "Actor", "Malware", "Indicator", "Vulnerability",
     "AttackTechnique", "Tool", "Identity"}
    \cup (IF inc THEN {"Incident", "AttackStep"} ELSE {})

\* maxLevel: {max(3, depth + 1)}
MaxLevel(d) == Max(3, d + 1)

OtherEnd(e, n) == IF EdgeCatalogue[e].src = n THEN EdgeCatalogue[e].dst ELSE EdgeCatalogue[e].src
Touches(e, n) == EdgeCatalogue[e].src = n \/ EdgeCatalogue[e].dst = n

LastNode(p) == p.nodes[Len(p.nodes)]

\* the paths one relationship longer than p: undirected, no relationship twice in a
\* path, relationship type and the label of the node reached in the allowlists
ExtendPath(g, p, types, labels) ==
    MapSeq(SelectSeq([i \in EdgeIds |-> i],
                     LAMBDA e : /\ e \in g
                                /\ e \notin p.rels
                                /\ EdgeCatalogue[e].type \in types
                                /\ Touches(e, LastNode(p))
                                /\ \E l \in labels : HasLabel(OtherEnd(e, LastNode(p)), l)),
           LAMBDA e : [nodes |-> Append(p.nodes, OtherEnd(e, LastNode(p))),
                       rels  |-> p.rels \cup {e}])

RECURSIVE ExpandLevels(_, _, _, _, _)
\* breadth first: the paths of each level from the frontier on, up to `levels` more
ExpandLevels(g, frontier, levels, types, labels) ==
    IF levels = 0 \/ frontier = <<>> THEN <<>>
    ELSE LET next == Flatten(MapSeq(frontier, LAMBDA p : ExtendPath(g, p, types, labels)))
         IN  next \o ExpandLevels(g, next, levels - 1, types, labels)

\* CALL apoc.path.expandConfig(seed, {minLevel: 1, maxLevel: .., bfs: true, limit: 200})
ExpandConfig(g, seed, maxLevel, inc) ==
    Limit(ExpandLevels(g, <<[nodes |-> <<seed>>, rels |-> {}]>>, maxLevel,
                       rel_filter, label_allow(inc)),
          ExpandPathLimit)

\* the expansion sub-query refused by the store (no path procedure): no rows
ExpansionRefused(g, lit, d, inc) == <<>>

\* WITH last(nodes(path)) AS candidate ... WHERE candidate:ThreatGroup OR
\* candidate:Incident RETURN ... LIMIT 100, on the paths in the order they are yielded
RowsOfPaths(paths) ==
    Limit(MapSeq(SelectSeq(paths, LAMBDA p : \/ HasLabel(LastNode(p), "ThreatGroup")
                                             \/ HasLabel(LastNode(p), "Incident")),
                 LAMBDA p : Row(LabelOfPathNode(LastNode(p)),
                                IF HasLabel(LastNode(p), "ThreatGroup") THEN "ThreatGroup"
                                ELSE IF HasLabel(LastNode(p), "Incident") THEN "Incident"
                                ELSE FirstLabel(LastNode(p)),
                                Len(p.nodes) - 1,
                                MapSeq(p.nodes, LabelOfPathNode),
                                0)),
          ExpandLimit)

ExpansionRows(g, lit, d, inc) ==
    IF lit = None THEN <<>>
    ELSE RowsOfPaths(Flatten(MapSeq(ContainsMatches(lit),
                                    LAMBDA seed : ExpandConfig(g, seed, MaxLevel(d), inc))))

(***************************************************************************)
(* The sub-queries built per artifact, and their execution.                *)
(***************************************************************************)
FulltextCutoff == 20
AggressiveCutoff == 60

\* looseness = max(0, min(100, int(looseness)))
NormLooseness(l) == Max(0, Min(100, l))

\* _get_fulltext_index_name() is not None
FulltextAvailable(ft) == ft > 0

SubQueriesFor(val, d, loose, inc, ft) ==
    LET lit == ReadLiteral(EscapeQuotes(Str(val)))
    IN  << [kind |-> "exact", lit |-> lit],
           [kind |-> "contains", lit |-> lit],
           IF NormLooseness(loose) >= FulltextCutoff /\ FulltextAvailable(ft)
           THEN [kind |-> "fulltext", lit |-> lit]
           ELSE [kind |-> "fallback", lit |-> lit],
           [kind |-> "expand", lit |-> lit] >>
        \o (IF NormLooseness(loose) >= AggressiveCutoff
            THEN << [kind |-> "aggressive", lit |-> lit] >> ELSE <<>>)

\* for art in artifacts: val = art.get('value') or ''
BuildSubQueries(arts, d, loose, inc, ft) ==
    Flatten(MapSeq(arts, LAMBDA val : SubQueriesFor(OrEmpty(val), d, loose, inc, ft)))

\* graph_client.query(q): the rows, [] when the store rejects the query
RunQuery(g, q, d, inc, ft) ==
    CASE q.kind = "exact"      -> ExactMatchRows(q.lit)
      [] q.kind = "contains"   -> PartialMatchRows(q.lit)
      [] q.kind = "fulltext"   -> FulltextRows(q.lit, ft)
      [] q.kind = "fallback"   -> ContainsFallbackRows(q.lit)
      [] q.kind = "expand"     -> ExpansionRows(g, q.lit, d, inc)
      [] q.kind = "aggressive" -> AggressiveContainsRows(q.lit)

QueryErrorDist == 9999

\* a request in which the store fails on one sub-query: the at-th of those built for
\* the art-th artifact (in the model: the exact-match or the expansion query of a
\* request of one artifact).  The exception of session.run is caught by graph_client.query,
\* which returns []; one raised outside that try (opening or closing the session)
\* reaches the except of the caller
NoFault == [art |-> 0, at |-> 0, raised |-> FALSE]
Faults == {NoFault} \cup { [art |-> 1, at |-> k, raised |-> r] : k \in {1, 4}, r \in BOOLEAN }

\* the row the except branch appends
QueryErrorRow == Row(None, "QueryError", QueryErrorDist, <<"QueryError: session expired">>, 0)

\* raw_rows: the rows of the sub-queries in order; nothing for one that failed
\* inside the client, the QueryError row for one that raised
CollectRows(g, queries, d, inc, ft, fault) ==
    Flatten([i \in 1..Len(queries) |->
                IF i # fault.at THEN RunQuery(g, queries[i], d, inc, ft)
                ELSE IF fault.raised THEN <<QueryErrorRow>>
                ELSE <<>>])

(***************************************************************************)
(* _find_threatgroups_for_label: from a candidate's label to ThreatGroups. *)
(***************************************************************************)
AllLabels == UNION { SeqToSet(Node[n].labels) : n \in NodeIds }

\* the end nodes of the trails of 1..maxLen relationships of the given types from n
TrailEnds(g, n, types, maxLen) ==
    { LastNode(p) : p \in SeqToSet(ExpandLevels(g, <<[nodes |-> <<n>>, rels |-> {}]>>,
                                                maxLen, types, AllLabels)) }

RECURSIVE Distinct(_)
\* the first occurrences, in order (RETURN DISTINCT)
Distinct(s) ==
    IF s = <<>> THEN <<>>
    ELSE LET front == Distinct(SubSeq(s, 1, Len(s) - 1))
         IN  IF s[Len(s)] \in SeqToSet(front) THEN front ELSE Append(front, s[Len(s)])

NamesOf(nodes) == SelectSeq(MapSeq(Scan(LAMBDA n : n \in nodes), LAMBDA n : Prop(n, "name")),
                            LAMBDA x : x # None)

\* toLower(coalesce(n.name, '')), toLower(coalesce(n.url, ''))
LowerName == [n \in NodeIds |-> ToLower(OrEmpty(Prop(n, "name")))]
LowerUrl == [n \in NodeIds |-> ToLower(OrEmpty(Prop(n, "url")))]

ResolveNodeLimit == 5
ResolveLimit == 15

\* q_inc: the groups an Incident of that title or name is attributed to
IncidentAttribution(g, k) ==
    LET incidents == Scan(LAMBDA i : /\ HasLabel(i, "Incident")
                                     /\ (Prop(i, "title") = k \/ Prop(i, "name") = k))
        rows == Flatten(MapSeq(incidents, LAMBDA i :
                    NamesOf({ tg \in TrailEnds(g, i, {"ATTRIBUTED_TO"}, 1) :
                                 HasLabel(tg, "ThreatGroup") })))
    IN  SelectSeq(rows, LAMBDA x : x # "")

\* q_resolve: from the (at most 5) nodes named like the label, over static threat
\* intelligence (1..2 hops) and over Incident chains (1..3 hops, then ATTRIBUTED_TO)
StaticAndIncidentResolution(g, k) ==
    LET lk == ToLower(k)
        ns == Limit(Scan(LAMBDA n :
                      \/ Prop(n, "name") = k \/ Prop(n, "value") = k \/ Prop(n, "url") = k
                      \/ Prop(n, "cve_id") = k \/ Prop(n, "title") = k
                      \/ Contains(LowerName[n], lk)
                      \/ Contains(LowerUrl[n], lk)),
                    ResolveNodeLimit)
        tg1 == UNION { { t \in TrailEnds(g, ns[j], {"ATTRIBUTED_TO", "INDICATES", "RELATED_TO", "USES"}, 2) :
                           HasLabel(t, "ThreatGroup") } : j \in 1..Len(ns) }
        inc == UNION { { i \in TrailEnds(g, ns[j], {"STARTS_WITH", "NEXT", "HAS_INDICATOR",
                                                   "USES_MALWARE", "EXPLOITS"}, 3) :
                           HasLabel(i, "Incident") } : j \in 1..Len(ns) }
        tg2 == UNION { { t \in TrailEnds(g, i, {"ATTRIBUTED_TO"}, 1) : HasLabel(t, "ThreatGroup") } :
                       i \in inc }
        rows == Limit(Distinct(Distinct(NamesOf(tg1)) \o Distinct(NamesOf(tg2))), ResolveLimit)
    IN  SelectSeq(rows, LAMBDA x : x # "")

find_threatgroups_for_label(g, val, itype) ==
    LET k == OrEmpty(val)
    IN  IF itype = "Incident" THEN IncidentAttribution(g, k)
        ELSE StaticAndIncidentResolution(g, k)

(***************************************************************************)
(* Mapping rows to ThreatGroup matches and aggregating them per group.     *)
(***************************************************************************)
DefaultDist == 10
IncidentHopPenalty == 1
OtherHopPenalty == 2

\* dist = r.get('dist', 10) or 10
RowDist(r) == IF r.dist = 0 THEN DefaultDist ELSE r.dist

\* cache_key = f"{k}_{itype}"
CacheKey(r) == <<OrEmpty(r.label), r.type>>

\* _find_threatgroups_for_label on the snapshots, labels and types of the model,
\* evaluated once
ResolutionOf ==
    [g \in Snapshots,
     label \in {""} \cup { OrEmpty(LabelWithTitle(n)) : n \in NodeIds },
     itype \in {"QueryError"} \cup { Node[n].labels[1] : n \in NodeIds }
        |-> find_threatgroups_for_label(g, label, itype)]

\* tg_cache once every row is resolved: one resolution per key
TgCache(g, rows) ==
    [key \in { CacheKey(rows[i]) : i \in { j \in 1..Len(rows) : rows[j].type # "ThreatGroup" } }
        |-> IF <<g, key[1], key[2]>> \in DOMAIN ResolutionOf
            THEN ResolutionOf[g, key[1], key[2]]
            ELSE find_threatgroups_for_label(g, key[1], key[2])]

\* for r in raw_rows: a ThreatGroup row is kept, any other is resolved
ThreatGroupMatches(tg_cache, r) ==
    IF r.type = "ThreatGroup" THEN <<r>>
    ELSE MapSeq(tg_cache[CacheKey(r)],
                LAMBDA tg_name :
                    Row(tg_name, "ThreatGroup",
                        RowDist(r) + (IF r.type = "Incident" THEN IncidentHopPenalty
                                      ELSE OtherHopPenalty),
                        Append(r.matches, "LinkedVia:" \o Str(r.label)),
                        r.raw_score))

\* tg_matches
AllThreatGroupMatches(g, rows) ==
    LET tg_cache == TgCache(g, rows)
    IN  Flatten(MapSeq(rows, LAMBDA r : ThreatGroupMatches(tg_cache, r)))

\* The sub-queries are built per artifact and run in order, and tg_cache only saves
\* repeating a resolution: raw_rows and tg_matches of a list are those of its
\* artifacts, one after the other.
ArtifactMatches(g, ft, val, d, loose, inc, fault) ==
    LET rows == CollectRows(g, SubQueriesFor(OrEmpty(val), d, loose, inc, ft), d, inc, ft, fault)
    IN  [raw_rows |-> rows, tg_matches |-> AllThreatGroupMatches(g, rows)]

\* artifact values an analyst submits: the spelling of the store, another case, a
\* fragment, and a value no node holds
ArtifactValues == {"1.2.3.4", "Emotet", "emotet", "emo", "zzz"}
Depths == 1..3
Loosenesses == {30, 100}
FulltextStates == {0, 7}

\* ArtifactMatches on the snapshots and inputs of the model, evaluated once (the
\* store does not change during a request)
ArtifactMatchesOf ==
    [g \in Snapshots, ft \in FulltextStates, val \in ArtifactValues, d \in Depths,
     loose \in Loosenesses, inc \in BOOLEAN, fault \in Faults
        |-> ArtifactMatches(g, ft, val, d, loose, inc, fault)]

MatchesOfArtifact(g, ft, val, d, loose, inc, fault) ==
    IF <<g, ft, val, d, loose, inc, fault>> \in DOMAIN ArtifactMatchesOf
    THEN ArtifactMatchesOf[g, ft, val, d, loose, inc, fault]
    ELSE ArtifactMatches(g, ft, val, d, loose, inc, fault)

IndexOfLabel(aggs, label) ==
    IF \E i \in 1..Len(aggs) : aggs[i].label = label
    THEN CHOOSE i \in 1..Len(aggs) : aggs[i].label = label
    ELSE 0

\* one turn of the aggregation loop, the distance of the row taken as it comes
AggregateOneLastDist(aggs, r) ==
    IF r.label = None \/ r.label = "" THEN aggs
    ELSE LET i    == IndexOfLabel(aggs, r.label)
             old  == IF i = 0
                     THEN [label |-> r.label, type |-> "ThreatGroup", min_dist |-> r.dist,
                           all_matches |-> {}, total_raw_score |-> 0, match_count |-> 0]
                     ELSE aggs[i]
             new  == [old EXCEPT !.min_dist = r.dist,
                                 !.total_raw_score = old.total_raw_score + r.raw_score,
                                 !.match_count = old.match_count + 1,
                                 !.all_matches = old.all_matches
                                                 \cup { Str(r.matches[j]) : j \in 1..Len(r.matches) }]
         IN  IF i = 0 THEN Append(aggs, new) ELSE [aggs EXCEPT ![i] = new]

\* one turn of the aggregation loop
AggregateOne(aggs, r) ==
    IF r.label = None \/ r.label = "" THEN aggs
    ELSE LET i    == IndexOfLabel(aggs, r.label)
             old  == IF i = 0
                     THEN [label |-> r.label, type |-> "ThreatGroup", min_dist |-> r.dist,
                           all_matches |-> {}, total_raw_score |-> 0, match_count |-> 0]
                     ELSE aggs[i]
             new  == [old EXCEPT !.min_dist = Min(old.min_dist, r.dist),
                                 !.total_raw_score = old.total_raw_score + r.raw_score,
                                 !.match_count = old.match_count + 1,
                                 !.all_matches = old.all_matches
                                                 \cup { Str(r.matches[j]) : j \in 1..Len(r.matches) }]
         IN  IF i = 0 THEN Append(aggs, new) ELSE [aggs EXCEPT ![i] = new]

RECURSIVE AggregateFrom(_, _)
\* the aggregation loop over rows, from the aggregate aggs (the rows taken in
\* order, split in halves)
AggregateFrom(aggs, rows) ==
    IF Len(aggs) >= 0 /\ Len(rows) = 0 THEN aggs
    ELSE IF Len(rows) = 1 THEN AggregateOne(aggs, rows[1])
    ELSE LET half == Len(rows) \div 2
         IN  AggregateFrom(AggregateFrom(aggs, SubSeq(rows, 1, half)),
                           SubSeq(rows, half + 1, Len(rows)))

\* aggregated_tgs, in insertion order
Aggregate(tg_matches) == AggregateFrom(<<>>, tg_matches)

(***************************************************************************)
(* Scoring and formatting.                                                 *)
(***************************************************************************)
\* user_input_values = {str(a['value']).lower() for a in artifacts}
UserInputValues(arts) == { ToLower(Str(arts[i])) : i \in 1..Len(arts) }

\* the clue an evidence string m stands for, as a set: empty when it is no user input
ClueOf(m, inputs) ==
    LET c == Find(m, ":")
    IN  IF c > 0
        THEN (IF ToLower(SubSeq(m, c + 1, Len(m))) \in inputs
              THEN {SubSeq(m, c + 1, Len(m))} ELSE {})
        ELSE (IF ToLower(m) \in inputs THEN {m} ELSE {})

\* matched_clues = sorted(list(set(matched_clues)))
MatchedClues(all_matches, arts) ==
    LET inputs == UserInputValues(arts)
    IN  Sorted(UNION { ClueOf(m, inputs) : m \in all_matches })

ProximityWeight == 40
BreadthWeight == 50
RawScoreCap == 10
ProvenanceBonus == 12
NoBonus == 10

\* provenance_weight, in tenths
ProvenanceWeight(all_matches) ==
    IF \E m \in all_matches : Contains(m, "Incident") \/ Contains(m, "incident")
    THEN ProvenanceBonus ELSE NoBonus

\* a proximity that falls linearly with the distance
ProximityLinear(dist) == <<1 - dist, 1>>

\* proximity_score = 1.0 / (1 + dist), as the fraction <<num, den>>
ProximityScore(dist) == <<1, 1 + dist>>

\* breadth_score = min(1.0, len(matched_clues) / max(1, len(artifacts)))
BreadthScore(clues, arts) ==
    LET n == Max(1, Len(arts))
    IN  <<Min(Len(clues), n), n>>

\* combined = (proximity * 0.4 + breadth * 0.5 + min(0.1, total_raw_score / 100))
\*            * provenance_weight, as the fraction <<num, den>>
Combined(agg, clues, arts) ==
    LET prox  == ProximityScore(agg.min_dist)
        br    == BreadthScore(clues, arts)
        raw   == Min(RawScoreCap, agg.total_raw_score)
    IN  << ( ProximityWeight * prox[1] * br[2]
             + BreadthWeight * br[1] * prox[2]
             + raw * prox[2] * br[2] ) * ProvenanceWeight(agg.all_matches),
           100 * 10 * prox[2] * br[2] >>

\* round(x * 1000) of the fraction x = <<num, den>>, den > 0 (halves away from zero)
RoundMilli(x) ==
    IF x[1] >= 0 THEN (2 * 1000 * x[1] + x[2]) \div (2 * x[2])
    ELSE 0 - ((2 * 1000 * (0 - x[1]) + x[2]) \div (2 * x[2]))

PercentCap == 1000

\* percent = min(round(combined * 100, 1), 100.0), in tenths of a percent
Percent(combined) == Min(RoundMilli(combined), PercentCap)

\* one entry of formatted_results; score = round(combined, 3) in thousandths
FormatResult(agg, arts) ==
    LET clues    == MatchedClues(agg.all_matches, arts)
        combined == Combined(agg, clues, arts)
    IN  [type    |-> "ThreatGroup",
         label   |-> agg.label,
         score   |-> RoundMilli(combined),
         percent |-> Percent(combined),
         matches |-> IF clues # <<>> THEN Join(clues, " | ") ELSE "Indirect Link",
         uri     |-> agg.label]

RECURSIVE InsertByScore(_, _)
\* x placed after the entries whose score is at least its own
InsertByScore(sorted, x) ==
    IF sorted = <<>> THEN <<x>>
    ELSE IF Head(sorted).score >= x.score THEN <<Head(sorted)>> \o InsertByScore(Tail(sorted), x)
    ELSE <<x>> \o sorted

\* the list left in the order of the aggregate
KeepOrder(rs) == rs

RECURSIVE SortByScore(_)
\* sorted(formatted_results, key=lambda x: x['score'], reverse=True): stable
SortByScore(rs) ==
    IF rs = <<>> THEN <<>>
    ELSE InsertByScore(SortByScore(SubSeq(rs, 1, Len(rs) - 1)), rs[Len(rs)])

TopN == 20

\* scoring, formatting and ranking of the aggregated groups: the value returned
Ranked(arts, rows, aggs, formatted) ==
    IF formatted = <<>>
    THEN [results |-> <<>>, message |-> "no_threat_group",
          raw_rows |-> rows, aggregated |-> aggs]
    ELSE [results |-> Limit(SortByScore(formatted), TopN), message |-> "analysis",
          raw_rows |-> rows, aggregated |-> aggs]

\* the aggregated groups scored and formatted, one result per group
Scored(arts, rows, aggs) ==
    Ranked(arts, rows, aggs, MapSeq(aggs, LAMBDA a : FormatResult(a, arts)))

\* the rows of all sub-queries, resolved to threat groups and aggregated by group
Resolved(arts, per_art) ==
    Scored(arts, Flatten(MapSeq(per_art, LAMBDA m : m.raw_rows)),
           Aggregate(Flatten(MapSeq(per_art, LAMBDA m : m.tg_matches))))

\* the sub-queries of every artifact run against snapshot g
Queried(g, ft, arts, d, loose, inc, fault) ==
    Resolved(arts, [i \in 1..Len(arts) |->
                       MatchesOfArtifact(g, ft, arts[i], d, loose, inc,
                                         IF fault.art = i THEN fault ELSE NoFault)])

\* the analysis without its return on an empty list of sub-queries
AnalysisWithoutEmptyReturn(g, ft, arts, d, loose, inc, fault) ==
    Queried(g, ft, arts, d, loose, inc, fault)

\* the whole of run_correlation_analysis on snapshot g with fulltext index ft:
\* [results, message, raw_rows, aggregated]
run_correlation_analysis(g, ft, arts, d, loose, inc, fault) ==
    IF BuildSubQueries(arts, d, loose, inc, ft) = <<>>
    THEN [results |-> <<>>, message |-> "no_artifacts",
          raw_rows |-> <<>>, aggregated |-> <<>>]
    ELSE Queried(g, ft, arts, d, loose, inc, fault)

(***************************************************************************)
(* Correlation requests against a snapshot.                                *)
(***************************************************************************)
ArtifactLists == UNION { [1..n -> ArtifactValues] : n \in 0..MaxArtifacts }

\* run_correlation_analysis on each request of the model, computed once
AnalysisOf ==
    [g \in Snapshots, ft \in FulltextStates, arts \in ArtifactLists, d \in Depths,
     loose \in Loosenesses, inc \in BOOLEAN
        |-> run_correlation_analysis(g, ft, arts, d, loose, inc, NoFault)]

\* the requests of the model on which the store fails: those of one artifact
FaultyAnalysisOf ==
    [g \in Snapshots, ft \in FulltextStates, val \in ArtifactValues, d \in Depths,
     loose \in Loosenesses, inc \in BOOLEAN, fault \in Faults \ {NoFault}
        |-> run_correlation_analysis(g, ft, <<val>>, d, loose, inc, fault)]

\* run_correlation_analysis, looked up where it was computed
Analysis(g, ft, arts, d, loose, inc, fault) ==
    IF fault.at = 0 THEN AnalysisOf[g, ft, arts, d, loose, inc]
    ELSE IF Len(arts) = 1 THEN FaultyAnalysisOf[g, ft, arts[1], d, loose, inc, fault]
    ELSE run_correlation_analysis(g, ft, arts, d, loose, inc, fault)

(***************************************************************************)
(* get_smart_hints: suggestions for the next artifact.                     *)
(***************************************************************************)
HintLimit == 20

\* the character that delimits the literal of the related-indicator query
DoubleQuote == "\""

RECURSIVE ClosingQuote(_, _)
\* the store reading a double-quoted literal whose body starts at s[i]: a backslash
\* takes the next character with it, the first bare quote ends the literal; its
\* position, 0 if the body holds none
ClosingQuote(s, i) ==
    IF i > Len(s) THEN 0
    ELSE IF CharAt(s, i) = "\\" THEN ClosingQuote(s, i + 2)
    ELSE IF CharAt(s, i) = DoubleQuote THEN i
    ELSE ClosingQuote(s, i + 1)

\* Cypher that completes the WHERE clause, removes the USES relationships of the
\* matched malware and comments out the rest of the line
DeleteUsesTail == ") OR true WITH m MATCH (m)<-[r:USES]-() DELETE r //"

\* the statement the store makes of
\*   MATCH (m:Malware)<-[:INDICATES]-(i:Indicator)
\*   WHERE toLower(m.name) = toLower("{prev_mal}") RETURN DISTINCT i.url as val LIMIT n
\* prev_mal is interpolated as it is: without a bare quote it is the literal; with
\* one, what follows it is Cypher
RelStatement(prev_mal) ==
    LET i == ClosingQuote(prev_mal, 1)
    IN  IF i = 0 THEN [kind |-> "read", name |-> prev_mal]
        ELSE IF SubSeq(prev_mal, i + 1, Len(prev_mal)) = DeleteUsesTail
        THEN [kind |-> "delete_uses", name |-> SubSeq(prev_mal, 1, i - 1)]
        ELSE [kind |-> "malformed", name |-> None]

\* the (m, i) of MATCH (m:Malware)<-[:INDICATES]-(i:Indicator) in snapshot g
IndicatedMalware(g) ==
    { <<EdgeCatalogue[e].dst, EdgeCatalogue[e].src>> : e \in
        { e \in g : /\ EdgeCatalogue[e].type = "INDICATES"
                    /\ HasLabel(EdgeCatalogue[e].dst, "Malware")
                    /\ HasLabel(EdgeCatalogue[e].src, "Indicator") } }

\* the rows of the related-indicator query and the snapshot it leaves; an error of
\* the store is caught by graph_client.query and gives no rows
RunRelQuery(g, prev_mal, limit) ==
    LET st == RelStatement(prev_mal)
    IN  IF st.kind = "read"
        THEN [rows  |-> Limit(Sorted({ Prop(p[2], "url") : p \in
                                        { p \in IndicatedMalware(g) :
                                            ToLower(Prop(p[1], "name")) = ToLower(st.name) } }),
                              limit),
              edges |-> g]
        ELSE IF st.kind = "delete_uses"
        THEN [rows  |-> <<>>,
              edges |-> g \ { e \in g : /\ EdgeCatalogue[e].type = "USES"
                                        /\ \E p \in IndicatedMalware(g) :
                                              EdgeCatalogue[e].dst = p[1] }]
        ELSE [rows |-> <<>>, edges |-> g]

\* next((x['value'] for x in context_artifacts if x['type'] == type), None)
FirstOfType(context_artifacts, type) ==
    LET at == { i \in 1..Len(context_artifacts) : context_artifacts[i].type = type }
    IN  IF at = {} THEN None
        ELSE context_artifacts[CHOOSE i \in at : \A j \in at : i <= j].value

\* the values of the second query: the Indicator urls, the Malware names or the
\* ThreatGroup names; nothing for another target type
FillValues(target_type) ==
    IF target_type = "Indicator"
    THEN { Prop(n, "url") : n \in { n \in NodeIds : HasLabel(n, "Indicator") } }
    ELSE IF target_type = "Malware"
    THEN { Prop(n, "name") : n \in { n \in NodeIds : HasLabel(n, "Malware") } }
    ELSE IF target_type = "Threat Group"
    THEN { Prop(n, "name") : n \in { n \in NodeIds : HasLabel(n, "ThreatGroup") } }
    ELSE {}

\* the lists of k different elements of S
Arrangements(S, k) == { a \in [1..k -> S] : \A i, j \in 1..k : i # j => a[i] # a[j] }

\* sorted(list(set(hints)), key=lambda x: x.startswith("[Rel]"), reverse=True)[:limit]:
\* the related hints before the others, each group in the order the set gives
RankedHints(hinted, limit) ==
    LET rel   == { h \in hinted : Len(h) >= 5 /\ SubSeq(h, 1, 5) = "[Rel]" }
        other == hinted \ rel
    IN  { Limit(a \o b, limit) : a \in Arrangements(rel, Cardinality(rel)),
                                 b \in Arrangements(other, Cardinality(other)) }

\* get_smart_hints on snapshot g: the lists it can return, each with the snapshot
\* the call leaves
get_smart_hints(g, target_type, context_artifacts, limit) ==
    LET prev_mal == IF context_artifacts = <<>> THEN None
                    ELSE FirstOfType(context_artifacts, "Malware")
        asked    == target_type = "Indicator" /\ prev_mal # None /\ prev_mal # ""
        rel      == IF asked THEN RunRelQuery(g, prev_mal, limit)
                    ELSE [rows |-> <<>>, edges |-> g]
        related  == { "[Rel] " \o rel.rows[i] : i \in 1..Len(rel.rows) }
        needed   == limit - Len(rel.rows)
        fill     == IF needed > 0 THEN FillValues(target_type) ELSE {}
    IN  { [hints |-> h, edges |-> rel.edges] :
            h \in UNION { RankedHints(related \cup SeqToSet(a), limit) :
                            a \in Arrangements(fill, Min(needed, Cardinality(fill))) } }

TargetTypes == {"Malware", "Vulnerability", "Indicator", "Threat Group"}

\* context_artifacts: the artifacts entered so far
HintContexts ==
    { <<>>,
      << [type |-> "Malware", value |-> "emotet"] >>,
      << [type |-> "Indicator", value |-> "1.2.3.4"], [type |-> "Malware", value |-> "TA1"] >>,
      << [type |-> "Malware", value |-> "Emo" \o DoubleQuote \o "tet"] >>,
      << [type |-> "Malware", value |-> "x" \o DoubleQuote \o DeleteUsesTail] >> }


\* what chain.invoke({}) of the narrative generator can do: return a text, or raise
LlmOutcomes == {"ok", "error"}

\* _generate_analysis: the text of the model, or the message of the except branch
_generate_analysis(llm) == IF llm = "error" THEN "AI Analysis Failed" ELSE "analysis"

\* the request aborted by a failing narrative generator: nothing returned
NarratedOrAborted(out, llm) ==
    IF out.results = <<>> THEN out @@ [narrative |-> "none"]
    ELSE IF llm = "error"
    THEN [out EXCEPT !.results = <<>>, !.message = "aborted"] @@ [narrative |-> llm]
    ELSE [out EXCEPT !.message = _generate_analysis(llm)] @@ [narrative |-> llm]

\* lines 399-400: analysis = _generate_analysis(...); return formatted_results,
\* analysis.  The generator is reached only with results (the returns at lines 217
\* and 367 come before it)
Narrated(out, llm) ==
    IF out.results = <<>> THEN out @@ [narrative |-> "none"]
    ELSE [out EXCEPT !.message = _generate_analysis(llm)] @@ [narrative |-> llm]

CorrInit ==
    /\ edges \in Snapshots
    /\ fulltext \in FulltextStates
    /\ pc = "idle"
    /\ artifacts = <<>>
    /\ depth = 1
    /\ looseness = 30
    /\ include_incidents = TRUE
    /\ results = <<>>
    /\ message = ""
    /\ raw_rows = <<>>
    /\ aggregated = <<>>
    /\ hints = <<>>
    /\ query_fault = NoFault
    /\ narrative = "none"
    \* no report is being processed
    /\ store = {}
    /\ step_entities = <<>>
    /\ remaining = <<>>
    /\ entity_no = 0
    /\ split_entities = <<>>
    /\ valid_entities = <<>>
    /\ grounding_log = <<>>
    /\ gpc = "done"
    /\ formatted_results = <<>>
    /\ ranked = <<>>
    /\ rpc = "done"
    /\ seed_paths = <<>>
    /\ rows_at = <<>>
    /\ xpc = "done"
    /\ kg = [nodes |-> {}, named |-> {}, labelled |-> {}, index |-> FALSE]
    /\ cypher_query = ""
    /\ tool_answer = "none"
    /\ incidents_json = <<>>
    /\ imported_json = <<>>
    /\ incident_nodes = {}

\* a caller runs run_correlation_analysis(artifacts, depth, looseness, include_incidents)
Correlate ==
    /\ pc = "idle"
    /\ \E arts \in ArtifactLists, d \in Depths, l \in Loosenesses, inc \in BOOLEAN,
          f \in Faults :
          /\ (f.at = 0 \/ Len(arts) = 1)
          /\ \E llm \in LlmOutcomes :
             \E out \in {Narrated(Analysis(edges, fulltext, arts, d, l, inc, f), llm)} :
              /\ narrative' = out.narrative
              /\ artifacts' = arts
              /\ query_fault' = f
              /\ depth' = d
              /\ looseness' = l
              /\ include_incidents' = inc
              /\ results' = out.results
              /\ message' = out.message
              /\ raw_rows' = out.raw_rows
              /\ aggregated' = out.aggregated
    /\ pc' = "done"
    /\ UNCHANGED <<edges, fulltext, hints>>
    /\ UNCHANGED outsideCorrelation

\* the caller has the results, or the hints, and may ask again
CorrReturn ==
    /\ pc # "idle"
    /\ pc' = "idle"
    /\ artifacts' = <<>>
    /\ depth' = 1
    /\ looseness' = 30
    /\ include_incidents' = TRUE
    /\ results' = <<>>
    /\ message' = ""
    /\ raw_rows' = <<>>
    /\ aggregated' = <<>>
    /\ query_fault' = NoFault
    /\ narrative' = "none"
    /\ hints' = <<>>
    /\ UNCHANGED <<edges, fulltext>>
    /\ UNCHANGED outsideCorrelation

\* a caller asks get_smart_hints(target_type, context_artifacts) for suggestions
Hint ==
    /\ pc = "idle"
    /\ \E target_type \in TargetTypes, context_artifacts \in HintContexts :
          \E out \in get_smart_hints(edges, target_type, context_artifacts, HintLimit) :
              /\ hints' = out.hints
              /\ edges' = out.edges
    /\ pc' = "hinted"
    /\ UNCHANGED <<fulltext, artifacts, depth, looseness, include_incidents,
                   results, message, raw_rows, aggregated, query_fault, narrative>>
    /\ UNCHANGED outsideCorrelation

CorrNext == Correlate \/ CorrReturn \/ Hint


(***************************************************************************)
(* Entity validation, cleaning and grounding: process_report and its       *)
(* helpers in src/src/services/intelligence_processor.py.                  *)
(***************************************************************************)
\* str.replace(old, new)
RECURSIVE Replace(_, _, _)
Replace(s, old, new) ==
    LET i == Find(s, old)
    IN  IF i = 0 THEN s
        ELSE SubSeq(s, 1, i - 1) \o new \o Replace(SubSeq(s, i + Len(old), Len(s)), old, new)

RECURSIVE LStrip(_)
LStrip(s) == IF Len(s) > 0 /\ CharAt(s, 1) = " " THEN LStrip(SubSeq(s, 2, Len(s))) ELSE s
RECURSIVE RStrip(_)
RStrip(s) ==
    IF Len(s) > 0 /\ CharAt(s, Len(s)) = " " THEN RStrip(SubSeq(s, 1, Len(s) - 1)) ELSE s
\* str.strip()
Strip(s) == RStrip(LStrip(s))

StartsWith(s, c) == Len(s) > 0 /\ CharAt(s, 1) = c
EndsWith(s, c) == Len(s) > 0 /\ CharAt(s, Len(s)) = c

Digits == "0123456789"
IsDigit(c) == \E i \in 1..Len(Digits) : CharAt(Digits, i) = c

\* Entity(type=.., value=..) with the defaults of the schema
Entity(type, value) ==
    [type |-> type, value |-> value, normalized_value |-> None,
     existing_id |-> None, is_new |-> TRUE]

MinValueLen == 3
blacklist == {"unknown", "none", "n/a", "example.com", "localhost", "127.0.0.1"}

\* the validation without its blacklist
ValidWithoutBlacklist(entity) ==
    LET val == Strip(entity.value)
    IN  /\ ~(val = "" \/ Len(val) < MinValueLen)
        /\ ~( \/ (StartsWith(val, "{") /\ EndsWith(val, "}"))
              \/ (StartsWith(val, "<") /\ EndsWith(val, ">")) )

_is_valid_entity(entity) ==
    LET val == Strip(entity.value)
    IN  /\ ~(val = "" \/ Len(val) < MinValueLen)
        /\ ~( \/ (StartsWith(val, "{") /\ EndsWith(val, "}"))
              \/ (StartsWith(val, "<") /\ EndsWith(val, ">"))
              \/ Contains(val, "IP Address")
              \/ Contains(val, "Target") )
        /\ ToLower(val) \notin blacklist

_clean_string(text) ==
    Replace(Replace(Replace(Replace(text, "[.]", "."), "(.)", "."), "[:]", ":"),
            "hxxp", "http")

MaxOctetLen == 3
OctetCount == 4

\* \d{1,3}(?:\.\d{1,3}){3} matches the whole of t
IsDottedQuad(t) ==
    LET parts == Split(t, ".")
    IN  /\ Len(parts) = OctetCount
        /\ \A i \in 1..Len(parts) :
              /\ Len(parts[i]) >= 1
              /\ Len(parts[i]) <= MaxOctetLen
              /\ \A j \in 1..Len(parts[i]) : IsDigit(CharAt(parts[i], j))

\* [\d,]+ matches the whole of t
IsPortList(t) ==
    /\ Len(t) >= 1
    /\ \A j \in 1..Len(t) : IsDigit(CharAt(t, j)) \/ CharAt(t, j) = ","

\* re.match(r"^(\d{1,3}(?:\.\d{1,3}){3}):([\d,]+)$", s): neither group can hold a
\* ':', so a match splits s at its only ':'; <<group 1, group 2>>, None if no match
IpPortMatch(s) ==
    LET i == Find(s, ":")
    IN  IF /\ i > 0
           /\ IsDottedQuad(SubSeq(s, 1, i - 1))
           /\ IsPortList(SubSeq(s, i + 1, Len(s)))
        THEN <<SubSeq(s, 1, i - 1), SubSeq(s, i + 1, Len(s))>>
        ELSE None

_clean_and_split(entity) ==
    LET clean_val == _clean_string(entity.value)
    IN  IF entity.type = "IP" /\ Contains(clean_val, ":") /\ IpPortMatch(clean_val) # None
        THEN << [entity EXCEPT !.value = IpPortMatch(clean_val)[1]] >>
        ELSE << [entity EXCEPT !.value = clean_val] >>

\* the (i, j, k) with a[i..i+k-1] = b[j..j+k-1], k >= 1
MatchingBlocks(a, b) ==
    { t \in { <<i, j, k>> : i \in 1..Len(a), j \in 1..Len(b), k \in 1..Min(Len(a), Len(b)) } :
        /\ t[1] + t[3] - 1 <= Len(a)
        /\ t[2] + t[3] - 1 <= Len(b)
        /\ SubSeq(a, t[1], t[1] + t[3] - 1) = SubSeq(b, t[2], t[2] + t[3] - 1) }

\* SequenceMatcher.find_longest_match without junk: the longest block, of those the
\* one starting earliest in a, of those the one starting earliest in b
LongestMatch(a, b) ==
    LET blocks == MatchingBlocks(a, b)
    IN  CHOOSE t \in blocks : \A u \in blocks :
            \/ t[3] > u[3]
            \/ (t[3] = u[3] /\ t[1] < u[1])
            \/ (t[3] = u[3] /\ t[1] = u[1] /\ t[2] <= u[2])

RECURSIVE MatchedSize(_, _)
\* the sum of the sizes of SequenceMatcher.get_matching_blocks(): the longest match,
\* then the same to its left and to its right
MatchedSize(a, b) ==
    IF Len(a) = 0 \/ Len(b) = 0 \/ MatchingBlocks(a, b) = {} THEN 0
    ELSE LET m == LongestMatch(a, b)
         IN  m[3] + MatchedSize(SubSeq(a, 1, m[1] - 1), SubSeq(b, 1, m[2] - 1))
                  + MatchedSize(SubSeq(a, m[1] + m[3], Len(a)), SubSeq(b, m[2] + m[3], Len(b)))

\* SequenceMatcher(None, a, b).ratio() = 2.0 * matches / (len(a) + len(b)), 1.0 when
\* both are empty; as the fraction <<num, den>>
Ratio(a, b) ==
    IF Len(a) + Len(b) = 0 THEN <<1, 1>> ELSE <<2 * MatchedSize(a, b), Len(a) + Len(b)>>

\* x > y and x = y on fractions with positive denominators
FracGreater(x, y) == x[1] * y[2] > y[1] * x[2]
FracEqual(x, y) == x[1] * y[2] = y[1] * x[2]

\* named nodes of the knowledge base and their elementId
StoreNames == <<"APT1", "APT10", "APT12", "APT17", "LockBit 3.0", "Kimsuky">>
ElementId == <<"n1", "n2", "n3", "n4", "n5", "n6">>
StoreIds == 1..Len(StoreNames)
LowerStoreName == [n \in StoreIds |-> ToLower(StoreNames[n])]

\* each family of names is loaded or not
StoreSnapshots ==
    { a \cup b \cup c : a \in {{}, {1}, {2, 3, 4}, {1, 2, 3, 4}}, b \in {{}, {5}}, c \in {{}, {6}} }

QueryLimit == 3

\* MATCH (n) WHERE toLower(n.name) CONTAINS toLower($val): the nodes that qualify
Qualifying(st, val) == LET v == ToLower(val) IN { n \in st : Contains(LowerStoreName[n], v) }

\* ... RETURN n.name, elementId(n), labels(n) LIMIT 3 has no ORDER BY: the store
\* answers with any 3 of the qualifying nodes (all, if fewer), in any order
StoreAnswers(st, val) ==
    LET q == Qualifying(st, val)
        n == Min(QueryLimit, Cardinality(q))
    IN  { a \in [1..n -> q] : \A i, j \in 1..n : i # j => a[i] # a[j] }

\* entities as the extraction hands them over: names near those of the store, a
\* name of the store within a longer value, a composite and a defanged indicator,
\* a placeholder, a defanged loopback address with a port, a value too short once
\* it is cleaned
RawEntities ==
    { Entity("Organization", "apt1"), Entity("Malware", "LockBit 3"),
      Entity("Person", "Kim"), Entity("Organization", "Kimsuky group"),
      Entity("IP", "1.2.3.4:8080,8443"),
      Entity("URL", "hxxp://a[.]bc"), Entity("IP", "{ IP Address }"),
      Entity("IP", "127[.]0[.]0[.]1:80"), Entity("Domain", "x[.]") }

\* the values grounding is asked about in the model, and their similarity to the
\* names of the store, evaluated once
GroundedValues == { _clean_and_split(e)[1].value : e \in RawEntities }
RatioOf ==
    [value \in GroundedValues, n \in StoreIds |-> Ratio(ToLower(value), LowerStoreName[n])]

\* SequenceMatcher(None, entity.value.lower(), r['name'].lower()).ratio()
Similarity(value, n) ==
    IF <<value, n>> \in DOMAIN RatioOf THEN RatioOf[value, n]
    ELSE Ratio(ToLower(value), LowerStoreName[n])

\* candidates: name, id and score of each returned row
Candidates(value, answer) ==
    [i \in 1..Len(answer) |->
        [name  |-> StoreNames[answer[i]],
         id    |-> ElementId[answer[i]],
         score |-> Similarity(value, answer[i])]] \o <<>>

\* max(candidates, key=lambda x: x['score']): the first of the greatest
Best(candidates) ==
    candidates[CHOOSE i \in 1..Len(candidates) :
                  /\ \A j \in 1..Len(candidates) :
                        ~FracGreater(candidates[j].score, candidates[i].score)
                  /\ \A j \in 1..(i - 1) :
                        FracGreater(candidates[i].score, candidates[j].score)]

\* what self.resolver.invoke(prompt) can do: raise, return nothing, or return an
\* EntityResolution that denies a match or names one (a listed candidate, or none)
ResolverReplies(candidates) ==
    { [kind |-> "error", is_match |-> FALSE, matched_id |-> None, normalized_name |-> None],
      [kind |-> "none", is_match |-> FALSE, matched_id |-> None, normalized_name |-> None],
      [kind |-> "reply", is_match |-> FALSE, matched_id |-> None, normalized_name |-> None],
      [kind |-> "reply", is_match |-> TRUE, matched_id |-> None, normalized_name |-> None] }
    \cup { [kind |-> "reply", is_match |-> TRUE, matched_id |-> candidates[i].id,
            normalized_name |-> candidates[i].name] : i \in 1..Len(candidates) }

HighThreshold == <<9, 10>>
MidThreshold == <<6, 10>>

\* what a call of _ground_entity saw besides the entity: the number of candidates,
\* the best score (0 without candidates), whether the resolver was invoked, whether
\* it named a match and whether the call to it raised
Seen(entity, candidates, score, invoked, confirmed, failed) ==
    [entity |-> entity, candidates |-> candidates, score |-> score,
     invoked |-> invoked, confirmed |-> confirmed, failed |-> failed]

\* the resolver consulted and an error of it taken for a match on nothing
ConsultResolverFailClosed(e0, n, score, reply) ==
    IF reply.kind = "none" \/ (reply.kind = "reply" /\ ~reply.is_match)
    THEN Seen(e0, n, score, TRUE, FALSE, FALSE)
    ELSE Seen([e0 EXCEPT !.normalized_value = reply.normalized_name,
                         !.existing_id = reply.matched_id,
                         !.is_new = FALSE],
              n, score, TRUE, reply.kind = "reply", reply.kind = "error")

\* the resolver consulted on an ambiguous best candidate: res.is_match accepts, a
\* reply of no match, no reply or an exception leaves the entity new
ConsultResolver(e0, n, score, reply) ==
    IF reply.kind = "reply" /\ reply.is_match
    THEN Seen([e0 EXCEPT !.normalized_value = reply.normalized_name,
                         !.existing_id = reply.matched_id,
                         !.is_new = FALSE],
              n, score, TRUE, TRUE, FALSE)
    ELSE Seen(e0, n, score, TRUE, FALSE, reply.kind = "error")

\* _ground_entity on the store's answer and, when it is consulted, the resolver's reply
_ground_entity(entity, answer, reply) ==
    LET e0         == [entity EXCEPT !.normalized_value = entity.value, !.is_new = TRUE]
        candidates == Candidates(entity.value, answer)
        best       == Best(candidates)
    IN  IF Len(answer) = 0
        THEN Seen(e0, 0, <<0, 1>>, FALSE, FALSE, FALSE)
        ELSE IF FracGreater(best.score, HighThreshold)
        THEN Seen([e0 EXCEPT !.normalized_value = best.name,
                             !.existing_id = best.id,
                             !.is_new = FALSE],
                  Len(candidates), best.score, FALSE, FALSE, FALSE)
        ELSE IF FracGreater(best.score, MidThreshold)
        THEN ConsultResolver(e0, Len(candidates), best.score, reply)
        ELSE Seen(e0, Len(candidates), best.score, FALSE, FALSE, FALSE)

EntityLists == UNION { [1..n -> RawEntities] : n \in 0..MaxEntities }

GroundInit ==
    /\ store \in StoreSnapshots
    /\ step_entities \in EntityLists
    /\ remaining = step_entities
    /\ entity_no = 0
    /\ split_entities = <<>>
    /\ valid_entities = <<>>
    /\ grounding_log = <<>>
    /\ gpc = "loop"
    \* no correlation request is made
    /\ edges = {}
    /\ fulltext = 0
    /\ pc = "idle"
    /\ artifacts = <<>>
    /\ depth = 1
    /\ looseness = 30
    /\ include_incidents = TRUE
    /\ results = <<>>
    /\ message = ""
    /\ raw_rows = <<>>
    /\ aggregated = <<>>
    /\ hints = <<>>
    /\ query_fault = NoFault
    /\ narrative = "none"
    /\ formatted_results = <<>>
    /\ ranked = <<>>
    /\ rpc = "done"
    /\ seed_paths = <<>>
    /\ rows_at = <<>>
    /\ xpc = "done"
    /\ kg = [nodes |-> {}, named |-> {}, labelled |-> {}, index |-> FALSE]
    /\ cypher_query = ""
    /\ tool_answer = "none"
    /\ incidents_json = <<>>
    /\ imported_json = <<>>
    /\ incident_nodes = {}

\* for entity in step.related_entities: validate, then _clean_and_split
NextEntity ==
    /\ gpc = "loop"
    /\ split_entities = <<>>
    /\ remaining # <<>>
    /\ split_entities' = IF _is_valid_entity(Head(remaining))
                         THEN _clean_and_split(Head(remaining)) ELSE <<>>
    /\ remaining' = Tail(remaining)
    /\ entity_no' = entity_no + 1
    /\ UNCHANGED <<store, step_entities, valid_entities, grounding_log, gpc>>
    /\ UNCHANGED outsideGrounding

\* for sub_ent in split_entities: validate, then _ground_entity and append
GroundSubEntity ==
    /\ gpc = "loop"
    /\ split_entities # <<>>
    /\ LET sub_ent == Head(split_entities)
       IN  IF ~_is_valid_entity(sub_ent)
           THEN UNCHANGED <<valid_entities, grounding_log>>
           ELSE \E answer \in StoreAnswers(store, sub_ent.value) :
                \E reply \in ResolverReplies(Candidates(sub_ent.value, answer)) :
                   LET g == _ground_entity(sub_ent, answer, reply)
                   IN  /\ valid_entities' = Append(valid_entities, g.entity)
                       /\ grounding_log' =
                             Append(grounding_log,
                                    [origin |-> entity_no, value |-> sub_ent.value,
                                     candidates |-> g.candidates, score |-> g.score,
                                     invoked |-> g.invoked, confirmed |-> g.confirmed,
                                     failed |-> g.failed])
    /\ split_entities' = Tail(split_entities)
    /\ UNCHANGED <<store, step_entities, remaining, entity_no, gpc>>
    /\ UNCHANGED outsideGrounding

\* step.related_entities = valid_entities
FinishStep ==
    /\ gpc = "loop"
    /\ split_entities = <<>>
    /\ remaining = <<>>
    /\ gpc' = "done"
    /\ UNCHANGED <<store, step_entities, remaining, entity_no, split_entities,
                   valid_entities, grounding_log>>
    /\ UNCHANGED outsideGrounding

GroundNext == NextEntity \/ GroundSubEntity \/ FinishStep

(***************************************************************************)
(* The ranking of run_correlation_analysis on its own: lists longer than   *)
(* the model's graph gives, with repeated scores.                          *)
(***************************************************************************)
MaxRanked == 22

\* a formatted result of the n-th actor of the aggregate
FormattedActor(n, score) ==
    [type |-> "ThreatGroup", label |-> "TG" \o ToString(n), score |-> score,
     percent |-> Min(score \div 10, 100), matches |-> "Indirect Link",
     uri |-> "TG" \o ToString(n)]

\* lists of formatted results, one per actor, in the order of the aggregate: the
\* scores (thousandths) run through a cycle, so that they repeat and are not in order
FormattedLists ==
    { [i \in 1..n |-> FormattedActor(i, ((a * i + b) % m) * 50)] :
        n \in 0..MaxRanked, a \in 0..3, b \in 0..2, m \in {1, 3, 7} }

RankInit ==
    /\ formatted_results \in FormattedLists
    /\ ranked = <<>>
    /\ rpc = "rank"
    \* no request is made and no report processed
    /\ edges = {}
    /\ fulltext = 0
    /\ pc = "idle"
    /\ artifacts = <<>>
    /\ depth = 1
    /\ looseness = 30
    /\ include_incidents = TRUE
    /\ results = <<>>
    /\ message = ""
    /\ raw_rows = <<>>
    /\ aggregated = <<>>
    /\ hints = <<>>
    /\ query_fault = NoFault
    /\ narrative = "none"
    /\ store = {}
    /\ step_entities = <<>>
    /\ remaining = <<>>
    /\ entity_no = 0
    /\ split_entities = <<>>
    /\ valid_entities = <<>>
    /\ grounding_log = <<>>
    /\ gpc = "done"
    /\ seed_paths = <<>>
    /\ rows_at = <<>>
    /\ xpc = "done"
    /\ kg = [nodes |-> {}, named |-> {}, labelled |-> {}, index |-> FALSE]
    /\ cypher_query = ""
    /\ tool_answer = "none"
    /\ incidents_json = <<>>
    /\ imported_json = <<>>
    /\ incident_nodes = {}

\* lines 366-369: the early return on an empty list, else sorted(...)[:20]
RankResults ==
    /\ rpc = "rank"
    /\ ranked' = Ranked(<<>>, <<>>, <<>>, formatted_results).results
    /\ rpc' = "done"
    /\ UNCHANGED formatted_results
    /\ UNCHANGED outsideRanking

RankNext == RankResults

(***************************************************************************)
(* The expansion sub-query on its own: seeds with more paths than the      *)
(* model's graph has, so that the limits of the query are reached.         *)
(***************************************************************************)
\* the k-th path of a seed that ends, `level` relationships on, at the group TA1
PathToGroup(seed, level, k) ==
    [nodes |-> <<seed>> \o [i \in 1..(level - 1) |-> 2] \o <<3>>, rels |-> {k}]

\* the paths of one seed in breadth-first order: n3 of three relationships, then n4
\* of four
PathsOfSeed(seed, n3, n4) ==
    [k \in 1..n3 |-> PathToGroup(seed, 3, k)] \o [k \in 1..n4 |-> PathToGroup(seed, 4, n3 + k)]

PathCounts == {0, 30, 60, 90}

\* expandConfig(seed, {maxLevel: .., bfs: true, limit: 200}) on the yielded paths:
\* those within the bound, breadth first, at most 200
ExpandConfigOf(paths, maxLevel) ==
    Limit(SelectSeq(paths, LAMBDA p : Len(p.nodes) - 1 <= maxLevel), ExpandPathLimit)

\* the rows of the expansion sub-query at depth d: MATCH (seed) ... CALL ... YIELD
\* path takes the seeds one after the other
ExpansionRowsOf(paths_of_seeds, d) ==
    RowsOfPaths(Flatten(MapSeq(paths_of_seeds, LAMBDA ps : ExpandConfigOf(ps, MaxLevel(d)))))

ExpandInit ==
    /\ seed_paths \in { << PathsOfSeed(2, a3, a4), PathsOfSeed(1, b3, b4) >> :
                          a3 \in PathCounts, a4 \in PathCounts,
                          b3 \in PathCounts, b4 \in PathCounts }
    /\ rows_at = <<>>
    /\ xpc = "expand"
    \* no request is made, no report processed, no list ranked
    /\ edges = {}
    /\ fulltext = 0
    /\ pc = "idle"
    /\ artifacts = <<>>
    /\ depth = 1
    /\ looseness = 30
    /\ include_incidents = TRUE
    /\ results = <<>>
    /\ message = ""
    /\ raw_rows = <<>>
    /\ aggregated = <<>>
    /\ hints = <<>>
    /\ query_fault = NoFault
    /\ narrative = "none"
    /\ store = {}
    /\ step_entities = <<>>
    /\ remaining = <<>>
    /\ entity_no = 0
    /\ split_entities = <<>>
    /\ valid_entities = <<>>
    /\ grounding_log = <<>>
    /\ gpc = "done"
    /\ formatted_results = <<>>
    /\ ranked = <<>>
    /\ rpc = "done"
    /\ kg = [nodes |-> {}, named |-> {}, labelled |-> {}, index |-> FALSE]
    /\ cypher_query = ""
    /\ tool_answer = "none"
    /\ incidents_json = <<>>
    /\ imported_json = <<>>
    /\ incident_nodes = {}

\* the expansion sub-query run at each depth on the same store
ExpandAtDepths ==
    /\ xpc = "expand"
    /\ rows_at' = [d \in Depths |-> ExpansionRowsOf(seed_paths, d)]
    /\ xpc' = "done"
    /\ UNCHANGED seed_paths
    /\ UNCHANGED outsideExpansion

ExpandNext == ExpandAtDepths

(***************************************************************************)
(* Requests of one artifact over a wider range of values: the whole text   *)
(* the queries compare with, a value longer than a stored name, a title,   *)
(* the empty value.                                                        *)
(***************************************************************************)
MatchValues ==
    ArtifactValues
    \cup { JoinCoalesced(n, PROP_FIELDS) : n \in NodeIds }
    \cup {"Emotet.exe", "x1.2.3.4", "Incident9", "incident", "TA1", "ta", "via", ""}

\* a caller runs run_correlation_analysis([{value: val}], depth, looseness, include_incidents)
CorrelateOne ==
    /\ pc = "idle"
    /\ \E val \in MatchValues, d \in Depths, l \in Loosenesses, inc \in BOOLEAN :
          \E out \in {Narrated(run_correlation_analysis(edges, fulltext, <<val>>, d, l, inc,
                                                        NoFault), "ok")} :
              /\ narrative' = out.narrative
              /\ artifacts' = <<val>>
              /\ query_fault' = NoFault
              /\ depth' = d
              /\ looseness' = l
              /\ include_incidents' = inc
              /\ results' = out.results
              /\ message' = out.message
              /\ raw_rows' = out.raw_rows
              /\ aggregated' = out.aggregated
    /\ pc' = "done"
    /\ UNCHANGED <<edges, fulltext, hints>>
    /\ UNCHANGED outsideCorrelation

MatchNext == CorrelateOne \/ CorrReturn

(***************************************************************************)
(* The run_cypher tool: src/src/tools/neo4j.py.                            *)
(***************************************************************************)
UpperTable == [c \in { CharAt(LowerChars, i) : i \in 1..26 } |->
                  CharAt(UpperChars, CHOOSE i \in 1..26 : CharAt(LowerChars, i) = c)]

RECURSIVE ToUpper(_)
\* str.upper()
ToUpper(s) ==
    IF s = "" THEN ""
    ELSE (IF CharAt(s, 1) \in DOMAIN UpperTable THEN UpperTable[CharAt(s, 1)] ELSE CharAt(s, 1))
         \o ToUpper(SubSeq(s, 2, Len(s)))

forbidden == <<"CREATE", "DELETE", "DETACH", "SET", "MERGE">>

\* any(cmd in query.upper() for cmd in forbidden)
IsForbidden(query) == \E i \in 1..Len(forbidden) : Contains(ToUpper(query), forbidden[i])

KgIds == 1..3

\* the clause keywords of a statement as the store reads them: its words, whatever
\* their case (a keyword inside a longer word or a literal is no clause)
ClauseWords(query) == SeqToSet(Split(ToUpper(query), " "))

\* the node a statement selects by MATCH (n {id: k}); 0 when it selects every node
TargetId(query) ==
    LET i == Find(query, "{id: ")
    IN  IF i = 0 THEN 0
        ELSE CHOOSE k \in KgIds : ToString(k) = CharAt(query, i + 5)

Selected(st, query) ==
    IF TargetId(query) = 0 THEN st.nodes ELSE st.nodes \cap {TargetId(query)}

\* the store after it has run the statement (auto-commit, as session.run does)
Execute(st, query) ==
    LET w == ClauseWords(query)
        sel == Selected(st, query)
    IN  IF "DELETE" \in w
        THEN [st EXCEPT !.nodes = @ \ sel, !.named = @ \ sel, !.labelled = @ \ sel]
        ELSE IF "SET" \in w THEN [st EXCEPT !.named = @ \cup sel]
        ELSE IF "CREATE" \in w \/ "MERGE" \in w
        THEN IF KgIds \subseteq st.nodes THEN st
             ELSE LET new == CHOOSE k \in KgIds \ st.nodes : \A j \in KgIds \ st.nodes : k <= j
                  IN  [st EXCEPT !.nodes = @ \cup {new}, !.named = @ \cup {new},
                                 !.labelled = @ \cup {new}]
        ELSE IF "REMOVE" \in w
        THEN IF Contains(query, "n.name") THEN [st EXCEPT !.named = @ \ sel]
             ELSE [st EXCEPT !.labelled = @ \ sel]
        ELSE IF "DROP" \in w THEN [st EXCEPT !.index = FALSE]
        ELSE st

\* the rows of the statement: those of its RETURN, none without one
HasRows(st, query) == "RETURN" \in ClauseWords(query) /\ Selected(st, query) # {}

ReadOnlyError == "Error: Read-only only."

\* query strings an agent passes to the tool
CypherQueries ==
    { "MATCH (n) RETURN n.name LIMIT 5",
      "MATCH (n) WHERE n.name = 'dataset' RETURN n",
      "MATCH (n:Malware) DETACH DELETE n",
      "match (n) set n.name = 'x'",
      "CREATE (:Malware {name: 'x'})",
      "Merge (n:Malware {name: 'x'})",
      "MATCH (n) REMOVE n.name",
      "DROP INDEX entity_name_index" }
    \cup { "MATCH (n {id: " \o ToString(k) \o "}) REMOVE n.name" : k \in KgIds }
    \cup { "MATCH (n {id: " \o ToString(k) \o "}) REMOVE n:Malware" : k \in KgIds }

\* _execute_cypher(query): graph_client.query returns [] without a driver, else runs
\* the statement; no rows give "No results found."
_execute_cypher(st, query, connected) ==
    IF ~connected THEN [kg |-> st, answer |-> "No results found."]
    ELSE [kg |-> Execute(st, query),
          answer |-> IF HasRows(st, query) THEN "rows" ELSE "No results found."]

\* run_cypher(query)
run_cypher(st, query, connected) ==
    IF IsForbidden(query) THEN [kg |-> st, answer |-> ReadOnlyError]
    ELSE _execute_cypher(st, query, connected)

CypherInit ==
    /\ kg \in { [nodes |-> KgIds, named |-> s, labelled |-> KgIds, index |-> x] :
                  s \in SUBSET KgIds, x \in BOOLEAN }
    /\ cypher_query = ""
    /\ tool_answer = "none"
    /\ edges = {}
    /\ fulltext = 0
    /\ pc = "idle"
    /\ artifacts = <<>>
    /\ depth = 1
    /\ looseness = 30
    /\ include_incidents = TRUE
    /\ results = <<>>
    /\ message = ""
    /\ raw_rows = <<>>
    /\ aggregated = <<>>
    /\ hints = <<>>
    /\ query_fault = NoFault
    /\ narrative = "none"
    /\ store = {}
    /\ step_entities = <<>>
    /\ remaining = <<>>
    /\ entity_no = 0
    /\ split_entities = <<>>
    /\ valid_entities = <<>>
    /\ grounding_log = <<>>
    /\ gpc = "done"
    /\ formatted_results = <<>>
    /\ ranked = <<>>
    /\ rpc = "done"
    /\ seed_paths = <<>>
    /\ rows_at = <<>>
    /\ xpc = "done"
    /\ incidents_json = <<>>
    /\ imported_json = <<>>
    /\ incident_nodes = {}

\* the agent calls run_cypher(query)
RunCypher ==
    /\ \E query \in CypherQueries, connected \in BOOLEAN :
          \E out \in {run_cypher(kg, query, connected)} :
              /\ kg' = out.kg
              /\ tool_answer' = out.answer
              /\ cypher_query' = query
    /\ UNCHANGED outsideCypher

CypherNext == RunCypher

(***************************************************************************)
(* Generated incidents: save_incidents (scripts/setup/generate_incidents.py) *)
(* and run_etl (scripts/etl/process_incidents.py).                         *)
(***************************************************************************)
MaxFile == 3
MaxBatch == 2

IdPrefix == "incident--"

\* str(incident['id']).startswith('incident--')
HasIdPrefix(id) == Len(id) >= Len(IdPrefix) /\ SubSeq(id, 1, Len(IdPrefix)) = IdPrefix

\* ids as the generator returns them: well-formed, of another form, or missing
GeneratedIds == {"incident--a", "incident--b", "scenario-1", None}

\* what random.randint(10000, 99999) returns: its two ends
RandomInts == {10000, 99999}

\* lines 214-215: an incident without a well-formed id gets a random one
AssignedId(id, rand) ==
    IF id = None \/ ~HasIdPrefix(Str(id))
    THEN "incident--gen-" \o ToString(rand)
    ELSE id

RECURSIVE AppendNew(_, _, _, _)
\* the loop of lines 213-219 from the i-th incident on; existing_ids is the set
\* computed at line 210
AppendNew(existing_data, existing_ids, new_ids, i) ==
    IF i > Len(new_ids) THEN existing_data
    ELSE AppendNew(IF new_ids[i] \notin existing_ids
                   THEN Append(existing_data, new_ids[i]) ELSE existing_data,
                   existing_ids, new_ids, i + 1)

\* save_incidents(new_incidents): the content of incidents.json afterwards
save_incidents(existing_data, new_incidents, rands) ==
    AppendNew(existing_data, SeqToSet(existing_data),
              [i \in 1..Len(new_incidents) |-> AssignedId(new_incidents[i], rands[i])], 1)

\* the store during a run of run_etl: no driver (query returns []), or a driver
EtlDrivers == {"none", "up"}
\* with a driver, an ingestion is written, fails inside session.run (query prints
\* and returns []), or raises outside it (the session cannot be opened)
IngestOutcomes == {"written", "query_error", "raised"}

\* ingest_incident returns without an exception
IngestReturns(driver, outcome) == driver = "none" \/ outcome # "raised"
\* the writes of ingest_incident reach the store
IngestWrites(driver, outcome) == driver = "up" /\ outcome = "written"

\* lines 193-201: the positions of raw_data that run_etl ingests
ToIngest(raw_data, processed_ids) ==
    { i \in 1..Len(raw_data) : raw_data[i] \notin processed_ids }

\* run_etl(): [imported, nodes] afterwards
run_etl(raw_data, imported, nodes, driver, outcomes) ==
    IF raw_data = <<>> THEN [imported |-> imported, nodes |-> nodes]
    ELSE LET processed_ids == SeqToSet(imported)
             ingested == ToIngest(raw_data, processed_ids)
             new_processed ==
                 SelectSeq([i \in 1..Len(raw_data) |->
                               IF i \in ingested /\ IngestReturns(driver, outcomes[i])
                               THEN raw_data[i] ELSE None],
                           LAMBDA id : id # None)
         IN  [imported |-> imported \o new_processed,
              nodes |-> nodes \cup { raw_data[i] : i \in { j \in ingested :
                                         IngestWrites(driver, outcomes[j]) } }]

IncidentInit ==
    /\ incidents_json \in {<<>>, <<"incident--a">>}
    /\ imported_json = <<>>
    /\ incident_nodes = {}
    /\ edges = {}
    /\ fulltext = 0
    /\ pc = "idle"
    /\ artifacts = <<>>
    /\ depth = 1
    /\ looseness = 30
    /\ include_incidents = TRUE
    /\ results = <<>>
    /\ message = ""
    /\ raw_rows = <<>>
    /\ aggregated = <<>>
    /\ hints = <<>>
    /\ query_fault = NoFault
    /\ narrative = "none"
    /\ store = {}
    /\ step_entities = <<>>
    /\ remaining = <<>>
    /\ entity_no = 0
    /\ split_entities = <<>>
    /\ valid_entities = <<>>
    /\ grounding_log = <<>>
    /\ gpc = "done"
    /\ formatted_results = <<>>
    /\ ranked = <<>>
    /\ rpc = "done"
    /\ seed_paths = <<>>
    /\ rows_at = <<>>
    /\ xpc = "done"
    /\ kg = [nodes |-> {}, named |-> {}, labelled |-> {}, index |-> FALSE]
    /\ cypher_query = ""
    /\ tool_answer = "none"

\* the generator saves a batch of scenarios
SaveIncidents ==
    /\ \E n \in 1..MaxBatch :
       \E new_incidents \in [1..n -> GeneratedIds], rands \in [1..n -> RandomInts] :
          /\ Len(incidents_json) + n <= MaxFile
          /\ incidents_json' = save_incidents(incidents_json, new_incidents, rands)
    /\ UNCHANGED <<imported_json, incident_nodes>>
    /\ UNCHANGED outsideIncidents

\* the import is run
RunEtl ==
    /\ \E driver \in EtlDrivers, outcomes \in [1..Len(incidents_json) -> IngestOutcomes] :
          \E out \in {run_etl(incidents_json, imported_json, incident_nodes, driver, outcomes)} :
              /\ imported_json' = out.imported
              /\ incident_nodes' = out.nodes
    /\ UNCHANGED incidents_json
    /\ UNCHANGED outsideIncidents

IncidentNext == SaveIncidents \/ RunEtl

(***************************************************************************)
(* Specifications: requests against the correlation service, and the       *)
(* post-processing of one step of a report.                                *)
(***************************************************************************)
SpecCorrelation ==
    CorrInit /\ [][CorrNext]_vars

SpecRanking ==
    RankInit /\ [][RankNext]_vars

SpecExpansion ==
    ExpandInit /\ [][ExpandNext]_vars

SpecGrounding ==
    GroundInit /\ [][GroundNext]_vars

SpecMatching ==
    CorrInit /\ [][MatchNext]_vars

SpecCypher ==
    CypherInit /\ [][CypherNext]_vars

SpecIncidents ==
    IncidentInit /\ [][IncidentNext]_vars

(***************************************************************************)
(* Properties of run_correlation_analysis.                                 *)
(***************************************************************************)
\* the entries of a result's 'matches' field, the placeholder apart
Entries(matches) == IF matches = "Indirect Link" THEN <<>> ELSE Split(matches, " | ")

\* <<actor, score, percent>> of every result
Scores(rs) == { <<rs[i].label, rs[i].score, rs[i].percent>> : i \in 1..Len(rs) }

\* the score of an actor in a result list, -1 when the list does not hold the actor
ActorScore(rs, label) ==
    IF \E i \in 1..Len(rs) : rs[i].label = label
    THEN rs[CHOOSE i \in 1..Len(rs) : rs[i].label = label].score
    ELSE -1

\* the analysis of another artifact list on the snapshot and settings of the state
Rerun(arts) ==
    run_correlation_analysis(edges, fulltext, arts, depth, looseness, include_incidents, NoFault)

\* C1: every returned result has a score that is not negative and a percent within
\* [0, 100] that is min(round(score * 100, 1), 100.0), whatever the snapshot, the
\* artifacts, depth, looseness and include_incidents (score in thousandths, percent
\* in tenths of a percent).
C1_PercentClamped ==
    \A i \in 1..Len(results) :
        /\ results[i].score >= 0
        /\ results[i].percent >= 0
        /\ results[i].percent <= PercentCap
        /\ results[i].percent = Min(results[i].score, PercentCap)

\* a returned actor with provenance bonus and full breadth: a percent of 70 or more
C1_Witness ==
    /\ pc = "done"
    /\ \E i \in 1..Len(results) : results[i].percent >= 700

\* C2: an artifact value submitted a second time leaves every actor's score and
\* percent as they are with the value submitted once (same snapshot, depth,
\* looseness and include_incidents).
C2_DuplicateKeepsScores ==
    (pc = "done" /\ query_fault.at = 0) =>
        \A i \in 1..Len(artifacts) :
            Scores(Rerun(Append(artifacts, artifacts[i])).results) = Scores(results)

\* C3: every entry of a result's 'matches' field other than the placeholder is the
\* value of an input artifact, and no entry is listed twice.
C3_CluesAreInputValues ==
    \A i \in 1..Len(results) :
        LET es == Entries(results[i].matches)
        IN  /\ \A j \in 1..Len(es) : \E k \in 1..Len(artifacts) : es[j] = artifacts[k]
            /\ \A j, k \in 1..Len(es) : j # k => es[j] # es[k]

\* C4: one more artifact that alone leads to an actor (a genuine path, whether its
\* node is matched exactly or partially), added to the list, does not lower that
\* actor's score on the same snapshot, depth, looseness and include_incidents.
C4_CorroborationKeepsScore ==
    (pc = "done" /\ query_fault.at = 0) =>
        \A v \in ArtifactValues : \A i \in 1..Len(results) :
            ( /\ ToLower(v) \notin UserInputValues(artifacts)
              /\ ActorScore(Rerun(<<v>>).results, results[i].label) >= 0 )
            => ActorScore(Rerun(Append(artifacts, v)).results, results[i].label)
                   >= results[i].score

\* Indicator(1.2.3.4) -INDICATES-> Malware(Emotet) <-USES- ThreatGroup(TA1) is in the
\* snapshot and the request is [1.2.3.4, Emotet], depth 2, looseness 30, incidents on
ScenarioA ==
    /\ pc = "done"
    /\ {1, 2} \subseteq edges
    /\ artifacts = <<"1.2.3.4", "Emotet">>
    /\ depth = 2
    /\ looseness = 30
    /\ include_incidents = TRUE

C6_NothingFoundIsExplained ==
    pc = "done" =>
        /\ artifacts = <<>> => (results = <<>> /\ message = "no_artifacts")
        /\ (artifacts # <<>> /\ (raw_rows = <<>> \/ aggregated = <<>>))
               => (results = <<>> /\ message = "no_threat_group")

\* an artifact that no node holds: no row, no result, the message
C6_Witness ==
    /\ pc = "done"
    /\ artifacts = <<"zzz">>
    /\ raw_rows = <<>>
    /\ results = <<>>
    /\ message = "no_threat_group"


(***************************************************************************)
(* Properties of the cleaning and grounding of entities.                   *)
(***************************************************************************)
\* x >= y on fractions with positive denominators
FracAtLeast(x, y) == ~FracGreater(y, x)

\* an entity whose cleaned value has the form IP:port[,port]*
IsComposite(e) == e.type = "IP" /\ IpPortMatch(_clean_string(e.value)) # None

\* the values of the IP entity and of one IP:port entity per listed port
SocketValues(raw) ==
    LET m     == IpPortMatch(_clean_string(raw))
        ports == Split(m[2], ",")
    IN  <<m[1]>> \o [i \in 1..Len(ports) |-> m[1] \o ":" \o ports[i]]

\* the values handed to grounding for the entity at position k of the step
ValuesFrom(k) ==
    LET from_k == SelectSeq(grounding_log, LAMBDA g : g.origin = k)
    IN  [i \in 1..Len(from_k) |-> from_k[i].value]

\* C7: a raw value IP:port[,port]* is normalised, before grounding, into the entity
\* of the bare IP and one entity IP:port per listed port, and nothing else
\* ('1.2.3.4:8080,8443' into 1.2.3.4, 1.2.3.4:8080 and 1.2.3.4:8443).
C7_CompositeSplitPerPort ==
    gpc = "done" =>
        \A k \in 1..Len(step_entities) :
            IsComposite(step_entities[k])
                => ValuesFrom(k) = SocketValues(step_entities[k].value)

\* C8: a value equal, case aside, to the name of a node of the store is grounded with
\* similarity 1.0 to that node, is_new = false and existing_id that node's id,
\* whatever other nodes hold the value in their names.
C8_ExactNameIsGrounded ==
    \A i \in 1..Len(valid_entities) : \A n \in store :
        LowerStoreName[n] = ToLower(grounding_log[i].value)
            => /\ grounding_log[i].candidates > 0
               /\ FracEqual(grounding_log[i].score, <<1, 1>>)
               /\ valid_entities[i].is_new = FALSE
               /\ valid_entities[i].existing_id = ElementId[n]

\* C9: two groundings of the same raw value against the same snapshot give the same
\* existing_id and the same is_new, whichever tier the best candidate falls in.
\* The pairs compared are those in which at most one grounding consulted the
\* resolver, so that a difference is never the resolver answering twice differently.
C9_SameValueSameDecision ==
    \A i, j \in 1..Len(valid_entities) :
        /\ step_entities[grounding_log[i].origin].value
               = step_entities[grounding_log[j].origin].value
        /\ ~(grounding_log[i].invoked /\ grounding_log[j].invoked)
        => /\ valid_entities[i].existing_id = valid_entities[j].existing_id
           /\ valid_entities[i].is_new = valid_entities[j].is_new

\* C10: with best score s, s >= 0.9 accepts the candidate (existing_id set, is_new
\* false) without the resolver; 0.6 <= s < 0.9 invokes the resolver and accepts
\* exactly when it names a match; s < 0.6, or no candidate, leaves is_new true and
\* the normalized value the cleaned value, without the resolver.
C10_TiersIncludeLowerBound ==
    \A i \in 1..Len(valid_entities) :
        LET g == grounding_log[i]
            e == valid_entities[i]
        IN  /\ (g.candidates > 0 /\ FracAtLeast(g.score, HighThreshold))
                  => (e.existing_id # None /\ e.is_new = FALSE /\ ~g.invoked)
            /\ (g.candidates > 0 /\ FracAtLeast(g.score, MidThreshold)
                                 /\ ~FracAtLeast(g.score, HighThreshold))
                  => (g.invoked /\ (e.is_new = FALSE <=> g.confirmed))
            /\ (g.candidates = 0 \/ ~FracAtLeast(g.score, MidThreshold))
                  => (e.is_new = TRUE /\ e.normalized_value = g.value /\ ~g.invoked)

\* the sub-entities of an extracted entity that reach _ground_entity
GroundedFrom(e) ==
    IF _is_valid_entity(e) THEN SelectSeq(_clean_and_split(e), _is_valid_entity) ELSE <<>>

C12_NeverWritesToStore == [][edges' = edges /\ store' = store]_vars

\* C13: a strategy query that fails contributes no candidate and no actor: the
\* request returns what it returns when the store answers that query with zero
\* rows, and a result is returned
C13_FailedStrategyIsSkipped ==
    (pc = "done" /\ query_fault.at # 0)
        => /\ results = Analysis(edges, fulltext, artifacts, depth, looseness,
                                  include_incidents, [query_fault EXCEPT !.raised = FALSE]).results
           /\ message # ""

\* C14: the returned list is ordered by score, highest first, and holds at most
\* TopN entries; every entry is one of the formatted results, as many as fit are
\* kept, and no entry left out scores higher than one that was kept
C14_SortedTopN ==
    rpc = "done" =>
        /\ Len(ranked) = Min(Len(formatted_results), TopN)
        /\ \A i, j \in 1..Len(ranked) : i < j => ranked[i].score >= ranked[j].score
        /\ \A i, j \in 1..Len(ranked) : i # j => ranked[i] # ranked[j]
        /\ SeqToSet(ranked) \subseteq SeqToSet(formatted_results)
        /\ \A x \in SeqToSet(formatted_results) \ SeqToSet(ranked), y \in SeqToSet(ranked) :
              x.score <= y.score

\* more actors than fit, out of order: a higher-scoring actor late in the aggregate
\* is kept and a lower-scoring early one is left out
C14_Witness ==
    /\ rpc = "done"
    /\ Len(formatted_results) > TopN
    /\ Len(ranked) = TopN
    /\ \E i, j \in 1..Len(formatted_results) :
          /\ i < j
          /\ formatted_results[i] \notin SeqToSet(ranked)
          /\ formatted_results[j] \in SeqToSet(ranked)
          /\ formatted_results[j].score > formatted_results[i].score

\* orders in which n collected rows can arrive: every order of up to three rows;
\* of more, the exchanges of two neighbours, the reversal and the rotations
RowOrders(n) ==
    IF n <= 3 THEN { o \in [1..n -> 1..n] : \A i, j \in 1..n : i # j => o[i] # o[j] }
    ELSE { [i \in 1..n |-> IF i = k THEN k + 1 ELSE IF i = k + 1 THEN k ELSE i] : k \in 1..(n - 1) }
         \cup { [i \in 1..n |-> n + 1 - i] }
         \cup { [i \in 1..n |-> ((i + k - 1) % n) + 1] : k \in 1..(n - 1) }

\* the aggregate of the collected rows taken in order o, resolved with tg_cache
AggregateInOrder(tg_cache, rows, o) ==
    Aggregate(Flatten([i \in 1..Len(rows) |-> ThreatGroupMatches(tg_cache, rows[o[i]])]))

\* C15: on a fixed snapshot the aggregate of every actor (minimum distance, evidence
\* set, accumulated raw score, count) is the same in whatever order the collected
\* rows are taken
C15_AggregateIgnoresRowOrder ==
    pc = "done" /\ raw_rows # <<>> =>
        \E tg_cache \in {TgCache(edges, raw_rows)} :
            \A o \in RowOrders(Len(raw_rows)) :
                SeqToSet(AggregateInOrder(tg_cache, raw_rows, o)) = SeqToSet(aggregated)

\* an actor reached by several rows at different distances, the farther row first in
\* some order
C15_Witness ==
    /\ pc = "done"
    /\ Len(raw_rows) > 3
    /\ \E i \in 1..Len(aggregated) :
          /\ aggregated[i].match_count >= 2
          /\ \E r \in SeqToSet(AllThreatGroupMatches(edges, raw_rows)) :
                r.label = aggregated[i].label /\ r.dist > aggregated[i].min_dist

\* s[::-1]
Reversed(s) == [i \in 1..Len(s) |-> s[Len(s) + 1 - i]]

\* the rows of the request had the store returned the rows of each sub-query in the
\* opposite order (no sub-query has an ORDER BY)
RowsInOtherStoreOrder ==
    Flatten(MapSeq(BuildSubQueries(artifacts, depth, looseness, include_incidents, fulltext),
                   LAMBDA q : Reversed(RunQuery(edges, q, depth, include_incidents, fulltext))))

\* tg_matches of rows had the store also returned the groups of each resolution in
\* the opposite order (q_resolve and q_inc have no ORDER BY either)
MatchesInOtherStoreOrder(rows) ==
    LET tg_cache == TgCache(edges, rows)
    IN  Flatten(MapSeq(rows, LAMBDA r :
            ThreatGroupMatches([key \in DOMAIN tg_cache |-> Reversed(tg_cache[key])], r)))

\* C16: identical inputs on an identical snapshot give the same ranked list in the
\* same order, actors of equal score included, in whatever order the store returns
\* the rows of a query
C16_RankingIgnoresStoreOrder ==
    (pc = "done" /\ query_fault.at = 0 /\ results # <<>>)
        => \E rows \in {RowsInOtherStoreOrder} :
              results = Resolved(artifacts,
                                 << [raw_rows |-> rows,
                                     tg_matches |-> MatchesInOtherStoreOrder(rows)] >>).results

\* C17: with include_incidents false no Incident-class node takes part in
\* attribution.  On a snapshot without a USES relationship the only relationship of
\* TA1 is the ATTRIBUTED_TO of Incident9, and no artifact of the model matches TA1
\* itself: TA1 is not returned
C17_IncidentsExcluded ==
    (pc = "done" /\ ~include_incidents /\ edges \cap UsesEdges = {} /\ query_fault.at = 0)
        => \A i \in 1..Len(results) : results[i].label # "TA1"

\* C18: the provenance bonus multiplies an actor's score if and only if one of its
\* evidence paths traverses an Incident-class node.  For TA1: on a snapshot without a
\* USES relationship every path to it traverses Incident9 (bonus), on one without
\* the Incident chain none does (no bonus)
C18_BonusIffIncidentPath ==
    (pc = "done" /\ query_fault.at = 0)
        => \A j \in 1..Len(aggregated) :
              aggregated[j].label = "TA1"
                 => /\ edges \cap UsesEdges = {}
                          => ProvenanceWeight(aggregated[j].all_matches) = ProvenanceBonus
                    /\ edges \cap IncidentEdges = {}
                          => ProvenanceWeight(aggregated[j].all_matches) = NoBonus

\* C19: on a fixed snapshot every candidate the expansion explores at depth d it
\* also explores at depth d + 1, for d in 1..2, and the bound on the length of the
\* paths does not shrink
C19_DepthMonotone ==
    xpc = "done" =>
        \A d \in 1..2 :
            /\ MaxLevel(d) <= MaxLevel(d + 1)
            /\ SeqToSet(rows_at[d]) \subseteq SeqToSet(rows_at[d + 1])

\* C20: a narrative generator that raises does not abort the request: the ranked
\* list is returned as computed and the failure shows in the explanation alone
C20_NarrativeFailureKeepsResults ==
    (pc = "done" /\ narrative = "error")
        => /\ results = Analysis(edges, fulltext, artifacts, depth, looseness,
                                  include_incidents, query_fault).results
           /\ results # <<>>
           /\ message = "AI Analysis Failed"

\* a request with two actors ranked and the generator failing
C20_Witness ==
    /\ pc = "done"
    /\ narrative = "error"
    /\ Len(results) = 2
    /\ message = "AI Analysis Failed"

\* the fields a node is identified by: those of the label the queries return
IdentifyingFields == {"name", "cve_id", "url", "value", "title"}

\* C21: for every artifact whose value equals, case-insensitively, an identifying
\* field of a stored node, the exact strategy returns that node with distance 0
C21_ExactFieldMatchAtDistanceZero ==
    (pc = "done" /\ query_fault.at = 0) =>
        \A i \in 1..Len(artifacts), n \in NodeIds :
            (\E f \in IdentifyingFields :
                /\ Prop(n, f) # None
                /\ ToLower(Prop(n, f)) = ToLower(artifacts[i]))
            => \E k \in 1..Len(raw_rows) :
                /\ raw_rows[k].dist = 0
                /\ raw_rows[k].label = LabelWithTitle(n)
                /\ raw_rows[k].matches = <<CypherConcat("ExactMatch:", LabelWithTitle(n))>>

\* the artifact value as the store compares it
LowerValue(val) == ToLower(OrEmpty(val))

\* some comparable field of node n is contained in the value v
FieldContainedIn(n, v) ==
    \E i \in 1..Len(PROP_FIELDS) :
        /\ Prop(n, PROP_FIELDS[i]) # None
        /\ Contains(v, ToLower(Prop(n, PROP_FIELDS[i])))

\* the row the partial strategy returns for node n
PartialRow(n) ==
    Row(LabelWithTitle(n), FirstLabel(n), 1,
        <<CypherConcat("PartialMatch:", LabelWithTitle(n))>>, 0)

\* C22: the partial strategy returns, with distance 1, every node whose comparable
\* text contains the artifact value and every node whose comparable text is
\* contained in the artifact value, case-insensitively
C22_PartialBothDirections ==
    pc = "done" =>
        \A n \in NodeIds :
            (\/ Contains(CoalescedText[n], LowerValue(artifacts[1]))
             \/ FieldContainedIn(n, LowerValue(artifacts[1])))
            => \E k \in 1..Len(raw_rows) : raw_rows[k] = PartialRow(n)

\* the actors a candidate row is attributed to: itself when it is a ThreatGroup,
\* else what _find_threatgroups_for_label resolves its label to
AttributedActors(g, r) ==
    IF r.type = "ThreatGroup" THEN {r.label}
    ELSE SeqToSet(find_threatgroups_for_label(g, r.label, r.type))

\* the resolution hop penalty of a candidate row
HopPenalty(r) ==
    IF r.type = "ThreatGroup" THEN 0
    ELSE IF r.type = "Incident" THEN IncidentHopPenalty
    ELSE OtherHopPenalty

MinOf(S) == CHOOSE x \in S : \A y \in S : x <= y

\* C23: for each actor, min_dist is the minimum over the candidates attributed to it
\* of candidate distance + resolution hop penalty, also for candidates of distance 0
C23_MinDistIsMinOverCandidates ==
    pc = "done" =>
        \A j \in 1..Len(aggregated) :
            LET of_actor == { k \in 1..Len(raw_rows) :
                                aggregated[j].label \in AttributedActors(edges, raw_rows[k]) }
            IN  /\ of_actor # {}
                /\ aggregated[j].min_dist
                     = MinOf({ raw_rows[k].dist + HopPenalty(raw_rows[k]) : k \in of_actor })

\* node n is shown under the display label lab by one of the sub-queries
ShownAs(n, lab) ==
    /\ lab # None
    /\ lab \in {LabelWithTitle(n), LabelNoTitle(n), LabelOfPathNode(n)}

\* ThreatGroup t is reached from node n over attribution, usage or indication edges
\* (1-2 hops) or over an Incident chain (1-3 hops, then the Incident's attribution)
ReachesActor(g, n, t) ==
    /\ HasLabel(t, "ThreatGroup")
    /\ \/ t \in TrailEnds(g, n, {"ATTRIBUTED_TO", "INDICATES", "RELATED_TO", "USES"}, 2)
       \/ \E i \in TrailEnds(g, n, {"STARTS_WITH", "NEXT", "HAS_INDICATOR",
                                    "USES_MALWARE", "EXPLOITS"}, 3) :
             /\ HasLabel(i, "Incident")
             /\ t \in TrailEnds(g, i, {"ATTRIBUTED_TO"}, 1)

\* C24: an actor carries the evidence LinkedVia:<label> of a non-actor candidate only
\* if a node shown under that label has such a path to the actor; a candidate without
\* a path, or without a display label, adds no actor and no evidence
C24_AttributionFollowsMatchedNode ==
    pc = "done" =>
        \A j \in 1..Len(aggregated), k \in 1..Len(raw_rows) :
            (/\ raw_rows[k].type # "ThreatGroup"
             /\ ("LinkedVia:" \o Str(raw_rows[k].label)) \in aggregated[j].all_matches)
            => \E n \in NodeIds, t \in NodeIds :
                  /\ ShownAs(n, raw_rows[k].label)
                  /\ Prop(t, "name") = aggregated[j].label
                  /\ ReachesActor(edges, n, t)

\* the nodes whose name contains the value or is contained in it, case-insensitively
ContainsEitherWay(st, val) ==
    { n \in st : \/ Contains(LowerStoreName[n], ToLower(val))
                 \/ Contains(ToLower(val), LowerStoreName[n]) }

MaxCandidates == 10

\* C25: the store query of grounding returns as candidates the entities whose name
\* contains the cleaned value and those whose name is contained in it, and never
\* more than 10: whenever a node qualifies in either direction, grounding sees a
\* candidate
C25_CandidatesContainEitherWay ==
    \A i \in 1..Len(grounding_log) :
        /\ grounding_log[i].candidates <= MaxCandidates
        /\ ContainsEitherWay(store, grounding_log[i].value) # {}
              => grounding_log[i].candidates >= 1

\* a value that is a placeholder template, a blacklisted generic word or too short
Rejectable(v) ==
    \/ Len(v) < MinValueLen
    \/ (StartsWith(v, "{") /\ EndsWith(v, "}"))
    \/ (StartsWith(v, "<") /\ EndsWith(v, ">"))
    \/ ToLower(v) \in blacklist

\* the cleaned value of a raw entity: defanging undone, the port suffix of an IP dropped
CleanedValue(e) == _clean_and_split(e)[1].value

\* C26: after the step is processed no kept entity has a cleaned value that is a
\* placeholder, a blacklisted word or shorter than 3 characters, and a raw entity
\* whose value or cleaned value is one of these yields no entity
C26_NoPlaceholderKept ==
    gpc = "done" =>
        /\ \A i \in 1..Len(valid_entities) :
              /\ ~Rejectable(valid_entities[i].value)
              /\ ~Rejectable(Strip(valid_entities[i].value))
        /\ \A k \in 1..Len(step_entities) :
              (\/ Rejectable(Strip(step_entities[k].value))
               \/ Rejectable(Strip(CleanedValue(step_entities[k]))))
              => \A i \in 1..Len(grounding_log) : grounding_log[i].origin # k

\* a step with the defanged loopback address and port, rejected, and a name that is kept
C26_Witness ==
    /\ gpc = "done"
    /\ Len(step_entities) = 2
    /\ step_entities[1].value = "127[.]0[.]0[.]1:80"
    /\ CleanedValue(step_entities[1]) = "127.0.0.1"
    /\ step_entities[2].value = "apt1"
    /\ Len(valid_entities) = 1
    /\ valid_entities[1].value = "apt1"

\* C27: every query run_cypher accepts (does not answer 'Error: Read-only only.')
\* leaves the graph store unchanged
C27_AcceptedQueriesOnlyRead ==
    [][tool_answer' # ReadOnlyError => kg' = kg]_vars

\* C28: a grounded entity is marked existing exactly when its existing_id is set, and
\* the id of an entity marked existing is that of a candidate the store returned for
\* its value
C28_ExistingIffIdSet ==
    \A i \in 1..Len(valid_entities) :
        /\ (valid_entities[i].is_new = FALSE) <=> (valid_entities[i].existing_id # None)
        /\ valid_entities[i].is_new = FALSE
              => \E n \in Qualifying(store, valid_entities[i].value) :
                    valid_entities[i].existing_id = ElementId[n]

\* C29: across any sequence of runs of run_etl, an incident is recorded in
\* incidents_imported.json only if the writes of its ingestion reached the store
C29_RecordedOnlyIfIngested ==
    \A i \in 1..Len(imported_json) : imported_json[i] \in incident_nodes

\* C30: after any sequence of save_incidents calls the ids stored in incidents.json
\* are pairwise distinct and every one starts with 'incident--'
C30_StoredIdsDistinct ==
    /\ \A i, j \in 1..Len(incidents_json) :
          i # j => incidents_json[i] # incidents_json[j]
    /\ \A i \in 1..Len(incidents_json) : HasIdPrefix(incidents_json[i])

====
